---- MODULE Spec2Model ----
(***************************************************************************)
(* Function objects and the bytecode call path of py/objfun.c:             *)
(* mp_obj_new_fun_bc builds a function object, mp_setup_code_state binds   *)
(* the caller's arguments into a fresh code state, fun_bc_call runs the    *)
(* body under the function's globals.                                      *)
(***************************************************************************)
EXTENDS Integers, Sequences, FiniteSets, TLC

\* ------------------------------------------------------------------------
\* Bounds of the model
MaxPos == 2        \* largest n_pos_args of a modelled function
MaxKwOnly == 1     \* largest n_kwonly_args
MaxKw == 2         \* largest n_kw of a modelled call
FrameSlack == 1    \* slots of a frame beyond the argument slots (locals, stack)
MaxFuns == 1       \* function objects alive in the call machine
MaxDepth == 2      \* nesting of fun_bc_call invocations
MaxHeap == 2       \* code states allocated on the heap and not freed
MaxCallPos == 1    \* largest n_pos_args and n_args in the call machine

\* ------------------------------------------------------------------------
\* Objects.  Every mp_obj_t is a record of one shape.
MP_OBJ_NULL == [t |-> "null", id |-> 0, items |-> <<>>, map |-> <<>>]

\* an opaque object, known by its identity
Obj(n) == [t |-> "obj", id |-> n, items |-> <<>>, map |-> <<>>]

mp_const_empty_tuple == [t |-> "tuple", id |-> 0, items |-> <<>>, map |-> <<>>]

\* items is the C array items[0..n-1], given here as a sequence
mp_obj_new_tuple(n, items) ==
    IF n = 0 THEN mp_const_empty_tuple
    ELSE [t |-> "tuple", id |-> 0, items |-> SubSeq(items, 1, n), map |-> <<>>]

\* a dict; map is the sequence of its (key, value) entries
mp_obj_new_dict(n) == [t |-> "dict", id |-> 0, items |-> <<>>, map |-> <<>>]

\* a dict built by the compiler for the keyword-only defaults
DictOf(entries) == [t |-> "dict", id |-> 0, items |-> <<>>, map |-> entries]

mp_obj_dict_store(dict, key, value) ==
    IF \E e \in DOMAIN dict.map : dict.map[e][1] = key
    THEN [dict EXCEPT !.map = [e \in DOMAIN dict.map |->
                 IF dict.map[e][1] = key THEN <<key, value>> ELSE dict.map[e]]]
    ELSE [dict EXCEPT !.map = Append(dict.map, <<key, value>>)]

\* MP_MAP_LOOKUP: the entry index of key, 0 when there is none (elem == NULL)
mp_map_lookup(dict, key) ==
    IF \E e \in DOMAIN dict.map : dict.map[e][1] = key
    THEN CHOOSE e \in DOMAIN dict.map : dict.map[e][1] = key
    ELSE 0

\* a qstr boxed as an object (MP_OBJ_NEW_QSTR), and its unboxing
MP_OBJ_NEW_QSTR(q) == [t |-> "qstr", id |-> q, items |-> <<>>, map |-> <<>>]

MP_OBJ_QSTR_VALUE(o) == o.id

mp_obj_new_cell(obj) == [t |-> "cell", id |-> 0, items |-> <<obj>>, map |-> <<>>]

\* ------------------------------------------------------------------------
\* Scope flags (py/runtime0.h)
MP_SCOPE_FLAG_VARARGS == 4
MP_SCOPE_FLAG_VARKEYWORDS == 8

\* (flags & bit) != 0 for a single-bit mask
FlagSet(flags, bit) == (flags \div bit) % 2 = 1

\* ------------------------------------------------------------------------
\* Exceptions raised by the binder (MICROPY_ERROR_REPORTING_NORMAL messages)
NoErr == [kind |-> "none", a |-> 0, b |-> 0]

\* "function takes %d positional arguments but %d were given"
fun_pos_args_mismatch(expected, given) ==
    [kind |-> "ArityMismatch", a |-> expected, b |-> given]

\* "function got multiple values for argument '%s'"
DuplicateArgument(name) == [kind |-> "DuplicateArgument", a |-> name, b |-> 0]

\* "function does not take keyword arguments"
UnexpectedKeyword == [kind |-> "UnexpectedKeyword", a |-> 0, b |-> 0]

\* "function missing required positional argument #%d"
MissingRequiredPositional(idx) ==
    [kind |-> "MissingRequiredPositional", a |-> idx, b |-> 0]

\* "function missing required keyword argument '%s'"
MissingRequiredKeyword(name) ==
    [kind |-> "MissingRequiredKeyword", a |-> name, b |-> 0]

\* "function missing keyword-only argument"
MissingKeywordOnly == [kind |-> "MissingKeywordOnly", a |-> 0, b |-> 0]

\* ------------------------------------------------------------------------
\* mp_obj_new_fun_bc: the function object.  def_args_in is a tuple or
\* MP_OBJ_NULL, def_kw_args a dict or MP_OBJ_NULL; extra_args holds the
\* positional defaults and then, when given, the keyword-defaults dict.
\* (The variant before it stores a copy of each default, a new object.)
\* code is the parsed bytecode header: n_state, n_exc_stack and the list of
\* closed-over locals of the prelude.
mp_obj_new_fun_bc_CopyDefaults(globals, scope_flags, args, n_pos_args, n_kwonly_args, def_args_in, def_kw_args, code) ==
    LET n_def_args == IF def_args_in # MP_OBJ_NULL THEN Len(def_args_in.items) ELSE 0
        defs == IF def_args_in # MP_OBJ_NULL
                THEN [k \in DOMAIN def_args_in.items |->
                         [def_args_in.items[k] EXCEPT !.id = @ + 100]]
                ELSE <<>>
    IN [globals |-> globals,
        args |-> args,
        n_pos_args |-> n_pos_args,
        n_kwonly_args |-> n_kwonly_args,
        n_def_args |-> n_def_args,
        has_def_kw_args |-> (def_kw_args # MP_OBJ_NULL),
        takes_var_args |-> FlagSet(scope_flags, MP_SCOPE_FLAG_VARARGS),
        takes_kw_args |-> FlagSet(scope_flags, MP_SCOPE_FLAG_VARKEYWORDS),
        bytecode |-> code,
        extra_args |-> IF def_kw_args # MP_OBJ_NULL
                       THEN Append(defs, def_kw_args) ELSE defs]

\* a variant that records the namespace of the main module, not the active one
mp_obj_new_fun_bc_MainGlobals(globals, scope_flags, args, n_pos_args, n_kwonly_args, def_args_in, def_kw_args, code) ==
    LET n_def_args == IF def_args_in # MP_OBJ_NULL THEN Len(def_args_in.items) ELSE 0
        defs == IF def_args_in # MP_OBJ_NULL THEN def_args_in.items ELSE <<>>
    IN [globals |-> 1,
        args |-> args,
        n_pos_args |-> n_pos_args,
        n_kwonly_args |-> n_kwonly_args,
        n_def_args |-> n_def_args,
        has_def_kw_args |-> (def_kw_args # MP_OBJ_NULL),
        takes_var_args |-> FlagSet(scope_flags, MP_SCOPE_FLAG_VARARGS),
        takes_kw_args |-> FlagSet(scope_flags, MP_SCOPE_FLAG_VARKEYWORDS),
        bytecode |-> code,
        extra_args |-> IF def_kw_args # MP_OBJ_NULL
                       THEN Append(defs, def_kw_args) ELSE defs]

mp_obj_new_fun_bc(globals, scope_flags, args, n_pos_args, n_kwonly_args, def_args_in, def_kw_args, code) ==
    LET n_def_args == IF def_args_in # MP_OBJ_NULL THEN Len(def_args_in.items) ELSE 0
        defs == IF def_args_in # MP_OBJ_NULL THEN def_args_in.items ELSE <<>>
    IN [globals |-> globals,
        args |-> args,
        n_pos_args |-> n_pos_args,
        n_kwonly_args |-> n_kwonly_args,
        n_def_args |-> n_def_args,
        has_def_kw_args |-> (def_kw_args # MP_OBJ_NULL),
        takes_var_args |-> FlagSet(scope_flags, MP_SCOPE_FLAG_VARARGS),
        takes_kw_args |-> FlagSet(scope_flags, MP_SCOPE_FLAG_VARKEYWORDS),
        bytecode |-> code,
        extra_args |-> IF def_kw_args # MP_OBJ_NULL
                       THEN Append(defs, def_kw_args) ELSE defs]

\* ------------------------------------------------------------------------
\* mp_setup_code_state.  The frame is state[0 .. n_state-1]; args is the C
\* array args[0 .. n_args + 2*n_kw - 1] as a sequence (args[i] is args[i+1]
\* here), the keyword pairs following the positional arguments.
\* A binder stage yields [state, err, n_args, vp]: the frame so far, the
\* exception raised (NoErr when none), the clamped n_args and the index
\* var_pos_kw_args points at.

\* memset(code_state->state, 0, ...)
ZeroState(n_state) == [s \in 0 .. n_state - 1 |-> MP_OBJ_NULL]

\* a variant that hands the defaults out in reverse order
DefaultIndex_Reversed(self, i) == self.n_pos_args - 1 - i

\* index into extra_args of the default of positional parameter i
DefaultIndex(self, i) == i - (self.n_pos_args - self.n_def_args)

\* lines 246-248: defaults for the parameters n_args .. n_pos_args-1
FillDefaultsNoKw(self, n_state, n_args, state) ==
    [s \in DOMAIN state |->
        LET i == n_state - 1 - s
        IN IF i >= n_args /\ i < self.n_pos_args
           THEN self.extra_args[DefaultIndex(self, i) + 1]
           ELSE state[s]]

\* a variant that takes the tuple's items from the start of args
ExcessArgs_FromStart(self, args) == args

\* line 234: args + self->n_pos_args, the arguments beyond the parameters
ExcessArgs(self, args) == SubSeq(args, self.n_pos_args + 1, Len(args))

\* a variant that reports all the positional parameters as expected when too
\* few arguments are given
CheckPositional_ExpectAll(self, n_state, n_args, n_kw, args) ==
    LET P == self.n_pos_args
        vslot == n_state - 1 - self.n_pos_args - self.n_kwonly_args
        state0 == ZeroState(n_state)
    IN IF n_args > P
       THEN IF ~self.takes_var_args
            THEN [state |-> state0, err |-> fun_pos_args_mismatch(P, n_args),
                  n_args |-> n_args, vp |-> vslot]
            ELSE [state |-> [state0 EXCEPT ![vslot] =
                                mp_obj_new_tuple(n_args - P, ExcessArgs(self, args))],
                  err |-> NoErr, n_args |-> P, vp |-> vslot - 1]
       ELSE LET state1 == IF self.takes_var_args
                          THEN [state0 EXCEPT ![vslot] = mp_const_empty_tuple]
                          ELSE state0
                vp == IF self.takes_var_args THEN vslot - 1 ELSE vslot
            IN IF n_kw = 0 /\ ~self.has_def_kw_args
               THEN IF n_args >= P - self.n_def_args
                    THEN [state |-> FillDefaultsNoKw(self, n_state, n_args, state1),
                          err |-> NoErr, n_args |-> n_args, vp |-> vp]
                    ELSE [state |-> state1,
                          err |-> fun_pos_args_mismatch(P, n_args),
                          n_args |-> n_args, vp |-> vp]
               ELSE [state |-> state1, err |-> NoErr, n_args |-> n_args, vp |-> vp]

\* lines 226-253: check positional arguments
CheckPositional(self, n_state, n_args, n_kw, args) ==
    LET P == self.n_pos_args
        vslot == n_state - 1 - self.n_pos_args - self.n_kwonly_args
        state0 == ZeroState(n_state)
    IN IF n_args > P
       THEN IF ~self.takes_var_args
            THEN [state |-> state0, err |-> fun_pos_args_mismatch(P, n_args),
                  n_args |-> n_args, vp |-> vslot]
            ELSE [state |-> [state0 EXCEPT ![vslot] =
                                mp_obj_new_tuple(n_args - P, ExcessArgs(self, args))],
                  err |-> NoErr, n_args |-> P, vp |-> vslot - 1]
       ELSE LET state1 == IF self.takes_var_args
                          THEN [state0 EXCEPT ![vslot] = mp_const_empty_tuple]
                          ELSE state0
                vp == IF self.takes_var_args THEN vslot - 1 ELSE vslot
            IN IF n_kw = 0 /\ ~self.has_def_kw_args
               THEN IF n_args >= P - self.n_def_args
                    THEN [state |-> FillDefaultsNoKw(self, n_state, n_args, state1),
                          err |-> NoErr, n_args |-> n_args, vp |-> vp]
                    ELSE [state |-> state1,
                          err |-> fun_pos_args_mismatch(P - self.n_def_args, n_args),
                          n_args |-> n_args, vp |-> vp]
               ELSE [state |-> state1, err |-> NoErr, n_args |-> n_args, vp |-> vp]

\* lines 255-258: copy positional args into state
CopyPositional(n_state, n_args, args, state) ==
    [s \in DOMAIN state |->
        LET i == n_state - 1 - s
        IN IF i >= 0 /\ i < n_args THEN args[i + 1] ELSE state[s]]

\* lines 274-283: the first parameter whose name is arg_name, -1 when none
FindParam(self, arg_name) ==
    LET m == {j \in 0 .. self.n_pos_args + self.n_kwonly_args - 1 :
                 self.args[j + 1] = arg_name}
    IN IF m = {} THEN -1 ELSE CHOOSE j \in m : \A k \in m : j <= k

\* a variant that never finds the slot taken
SlotTaken_Never(n_state, j, state) == FALSE

\* line 276: the slot of parameter j already has a value
SlotTaken(n_state, j, state) == state[n_state - 1 - j] # MP_OBJ_NULL

\* a variant that passes over a keyword matching no parameter when the
\* function has no variadic dict
RECURSIVE KwLoop_SkipUnknown(_, _, _, _, _, _, _)
KwLoop_SkipUnknown(self, n_state, kwargs, n_kw, vp, i, st) ==
    IF i >= n_kw THEN st
    ELSE LET arg_name == MP_OBJ_QSTR_VALUE(kwargs[2 * i + 1])
             j == FindParam(self, arg_name)
         IN IF j >= 0
            THEN IF SlotTaken(n_state, j, st.state)
                 THEN [st EXCEPT !.err = DuplicateArgument(arg_name)]
                 ELSE KwLoop_SkipUnknown(self, n_state, kwargs, n_kw, vp, i + 1,
                        [st EXCEPT !.state[n_state - 1 - j] = kwargs[2 * i + 2]])
            ELSE IF ~self.takes_kw_args
                 THEN KwLoop_SkipUnknown(self, n_state, kwargs, n_kw, vp, i + 1, st)
                 ELSE KwLoop_SkipUnknown(self, n_state, kwargs, n_kw, vp, i + 1,
                        [st EXCEPT !.state[vp] =
                            mp_obj_dict_store(st.state[vp], kwargs[2 * i + 1],
                                              kwargs[2 * i + 2])])

\* a variant that stores the name of an unmatched pair as its value
RECURSIVE KwLoop_StoreName(_, _, _, _, _, _, _)
KwLoop_StoreName(self, n_state, kwargs, n_kw, vp, i, st) ==
    IF i >= n_kw THEN st
    ELSE LET arg_name == MP_OBJ_QSTR_VALUE(kwargs[2 * i + 1])
             j == FindParam(self, arg_name)
         IN IF j >= 0
            THEN IF SlotTaken(n_state, j, st.state)
                 THEN [st EXCEPT !.err = DuplicateArgument(arg_name)]
                 ELSE KwLoop_StoreName(self, n_state, kwargs, n_kw, vp, i + 1,
                        [st EXCEPT !.state[n_state - 1 - j] = kwargs[2 * i + 2]])
            ELSE IF ~self.takes_kw_args
                 THEN [st EXCEPT !.err = UnexpectedKeyword]
                 ELSE KwLoop_StoreName(self, n_state, kwargs, n_kw, vp, i + 1,
                        [st EXCEPT !.state[vp] =
                            mp_obj_dict_store(st.state[vp], kwargs[2 * i + 1],
                                              kwargs[2 * i + 1])])

\* a variant that rejects a pair matching no parameter, wherever it stands in
\* the call, before it binds any pair
RECURSIVE KwLoop_UnknownFirst(_, _, _, _, _, _, _)
KwLoop_UnknownFirst(self, n_state, kwargs, n_kw, vp, i, st) ==
    IF i >= n_kw THEN st
    ELSE LET arg_name == MP_OBJ_QSTR_VALUE(kwargs[2 * i + 1])
             j == FindParam(self, arg_name)
             unknown == \E h \in i .. n_kw - 1 :
                           FindParam(self, MP_OBJ_QSTR_VALUE(kwargs[2 * h + 1])) < 0
         IN IF unknown /\ ~self.takes_kw_args
            THEN [st EXCEPT !.err = UnexpectedKeyword]
            ELSE IF j >= 0
            THEN IF SlotTaken(n_state, j, st.state)
                 THEN [st EXCEPT !.err = DuplicateArgument(arg_name)]
                 ELSE KwLoop_UnknownFirst(self, n_state, kwargs, n_kw, vp, i + 1,
                        [st EXCEPT !.state[n_state - 1 - j] = kwargs[2 * i + 2]])
            ELSE KwLoop_UnknownFirst(self, n_state, kwargs, n_kw, vp, i + 1,
                        [st EXCEPT !.state[vp] =
                            mp_obj_dict_store(st.state[vp], kwargs[2 * i + 1],
                                              kwargs[2 * i + 2])])

\* lines 272-290: the keyword pairs i .. n_kw-1, in the caller's order; the
\* dict of unmatched pairs is the object in state[vp]
RECURSIVE KwLoop(_, _, _, _, _, _, _)
KwLoop(self, n_state, kwargs, n_kw, vp, i, st) ==
    IF i >= n_kw THEN st
    ELSE LET arg_name == MP_OBJ_QSTR_VALUE(kwargs[2 * i + 1])
             j == FindParam(self, arg_name)
         IN IF j >= 0
            THEN IF SlotTaken(n_state, j, st.state)
                 THEN [st EXCEPT !.err = DuplicateArgument(arg_name)]
                 ELSE KwLoop(self, n_state, kwargs, n_kw, vp, i + 1,
                        [st EXCEPT !.state[n_state - 1 - j] = kwargs[2 * i + 2]])
            ELSE IF ~self.takes_kw_args
                 THEN [st EXCEPT !.err = UnexpectedKeyword]
                 ELSE KwLoop(self, n_state, kwargs, n_kw, vp, i + 1,
                        [st EXCEPT !.state[vp] =
                            mp_obj_dict_store(st.state[vp], kwargs[2 * i + 1],
                                              kwargs[2 * i + 2])])

\* a variant that writes the defaults without looking at the slot
FillDefaultsKw_Overwrite(self, n_state, state) ==
    [x \in DOMAIN state |->
        LET t == x - (n_state - self.n_pos_args)
        IN IF t >= 0 /\ t < self.n_def_args
           THEN self.extra_args[(self.n_def_args - 1 - t) + 1]
           ELSE state[x]]

\* lines 295-302: fill in defaults for positional args; d walks up from
\* state[n_state - n_pos_args], s walks down from extra_args[n_def_args - 1]
FillDefaultsKw(self, n_state, state) ==
    [x \in DOMAIN state |->
        LET t == x - (n_state - self.n_pos_args)
        IN IF t >= 0 /\ t < self.n_def_args /\ state[x] = MP_OBJ_NULL
           THEN self.extra_args[(self.n_def_args - 1 - t) + 1]
           ELSE state[x]]

\* a variant whose scan starts at parameter 0
CheckMandatoryPositional_FromFirst(self, n_state, state) ==
    LET empty == {x \in (n_state - self.n_pos_args + self.n_def_args) .. (n_state - 1) :
                     state[x] = MP_OBJ_NULL}
    IN IF empty = {} THEN NoErr
       ELSE LET x == CHOOSE y \in empty : \A z \in empty : y >= z
            IN MissingRequiredPositional(n_state - (x + 1))

\* lines 307-313: the first empty slot met by d on its way up to
\* state[n_state], reported as &state[n_state] - d after the increment
CheckMandatoryPositional(self, n_state, state) ==
    LET empty == {x \in (n_state - self.n_pos_args + self.n_def_args) .. (n_state - 1) :
                     state[x] = MP_OBJ_NULL}
    IN IF empty = {} THEN NoErr
       ELSE LET x == CHOOSE y \in empty : \A z \in empty : y <= z
            IN MissingRequiredPositional(n_state - (x + 1))

\* lines 317-330: keyword-only parameters i .. n_kwonly_args-1
RECURSIVE KwOnlyLoop(_, _, _, _)
KwOnlyLoop(self, n_state, i, st) ==
    IF i >= self.n_kwonly_args THEN st
    ELSE LET x == n_state - 1 - self.n_pos_args - i
             name == self.args[self.n_pos_args + i + 1]
             elem == IF self.has_def_kw_args
                     THEN mp_map_lookup(self.extra_args[self.n_def_args + 1],
                                        MP_OBJ_NEW_QSTR(name))
                     ELSE 0
         IN IF st.state[x] = MP_OBJ_NULL
            THEN IF elem # 0
                 THEN KwOnlyLoop(self, n_state, i + 1,
                        [st EXCEPT !.state[x] =
                            self.extra_args[self.n_def_args + 1].map[elem][2]])
                 ELSE [st EXCEPT !.err = MissingRequiredKeyword(name)]
            ELSE KwOnlyLoop(self, n_state, i + 1, st)

\* lines 262-331: check keyword arguments
CheckKeywords(self, n_state, n_kw, kwargs, st) ==
    LET st1 == IF self.takes_kw_args
               THEN [st EXCEPT !.state[st.vp] = mp_obj_new_dict(n_kw)]
               ELSE st
        st2 == KwLoop(self, n_state, kwargs, n_kw, st.vp, 0, st1)
        st3 == [st2 EXCEPT !.state = FillDefaultsKw(self, n_state, st2.state)]
        e3 == CheckMandatoryPositional(self, n_state, st3.state)
    IN IF st2.err # NoErr THEN st2
       ELSE IF e3 # NoErr THEN [st3 EXCEPT !.err = e3]
       ELSE KwOnlyLoop(self, n_state, 0, st3)

\* a variant that leaves the variadic-keyword slot empty
NoKeywords_NoDict(self, st) ==
    IF self.n_kwonly_args # 0 THEN [st EXCEPT !.err = MissingKeywordOnly] ELSE st

\* a variant that does not ask for the keyword-only parameters
NoKeywords_NoKwOnlyCheck(self, st) ==
    IF self.takes_kw_args
    THEN [st EXCEPT !.state[st.vp] = mp_obj_new_dict(0)]
    ELSE st

\* lines 332-341: no keyword arguments given
NoKeywords(self, st) ==
    IF self.n_kwonly_args # 0 THEN [st EXCEPT !.err = MissingKeywordOnly]
    ELSE IF self.takes_kw_args
         THEN [st EXCEPT !.state[st.vp] = mp_obj_new_dict(0)]
         ELSE st

\* lines 343-347: bytecode prelude, closed-over locals k .. Len(closed)
RECURSIVE Prelude(_, _, _, _)
Prelude(n_state, closed, k, state) ==
    IF k > Len(closed) THEN state
    ELSE Prelude(n_state, closed, k + 1,
           [state EXCEPT ![n_state - 1 - closed[k]] =
               mp_obj_new_cell(state[n_state - 1 - closed[k]])])

\* a variant that reports a keyword failure before the positional excess
mp_setup_code_state_KwFirst(self, n_state, closed, n_args, n_kw, args) ==
    LET kwargs == SubSeq(args, n_args + 1, Len(args))
        st0 == CheckPositional(self, n_state, n_args, n_kw, args)
        st1 == [st0 EXCEPT !.state = CopyPositional(n_state, st0.n_args, args, st0.state)]
        st2 == IF n_kw # 0 \/ self.has_def_kw_args
               THEN CheckKeywords(self, n_state, n_kw, kwargs, [st1 EXCEPT !.err = NoErr])
               ELSE NoKeywords(self, [st1 EXCEPT !.err = NoErr])
    IN IF st2.err # NoErr THEN st2
       ELSE IF st0.err # NoErr THEN st0
       ELSE [st2 EXCEPT !.state = Prelude(n_state, closed, 1, st2.state)]

\* a variant that runs the closure prelude whether binding succeeded or not
mp_setup_code_state_PreludeAlways(self, n_state, closed, n_args, n_kw, args) ==
    LET kwargs == SubSeq(args, n_args + 1, Len(args))
        st0 == CheckPositional(self, n_state, n_args, n_kw, args)
        st1 == [st0 EXCEPT !.state = CopyPositional(n_state, st0.n_args, args, st0.state)]
        st2 == IF n_kw # 0 \/ self.has_def_kw_args
               THEN CheckKeywords(self, n_state, n_kw, kwargs, st1)
               ELSE NoKeywords(self, st1)
    IN IF st0.err # NoErr THEN [st0 EXCEPT !.state = Prelude(n_state, closed, 1, st0.state)]
       ELSE [st2 EXCEPT !.state = Prelude(n_state, closed, 1, st2.state)]

\* the whole of mp_setup_code_state: [state, err, n_args, vp]
mp_setup_code_state(self, n_state, closed, n_args, n_kw, args) ==
    LET kwargs == SubSeq(args, n_args + 1, Len(args))
        st0 == CheckPositional(self, n_state, n_args, n_kw, args)
        st1 == [st0 EXCEPT !.state = CopyPositional(n_state, st0.n_args, args, st0.state)]
        st2 == IF n_kw # 0 \/ self.has_def_kw_args
               THEN CheckKeywords(self, n_state, n_kw, kwargs, st1)
               ELSE NoKeywords(self, st1)
    IN IF st0.err # NoErr THEN st0
       ELSE IF st2.err # NoErr THEN st2
       ELSE [st2 EXCEPT !.state = Prelude(n_state, closed, 1, st2.state)]

\* ------------------------------------------------------------------------
\* The memory mp_setup_code_state addresses in lines 219-341: the indices of
\* the frame slots its statements store to, and the indices of extra_args
\* they load from.  A statement counts when control reaches it, as decided
\* by the stages above.

\* a variant whose variadic slots start one slot higher
VarPosKwArgs_OneAbove(self, n_state) == n_state - self.n_pos_args - self.n_kwonly_args

\* line 224: the index var_pos_kw_args points at before any decrement
VarPosKwArgs(self, n_state) == n_state - 1 - self.n_pos_args - self.n_kwonly_args

\* lines 234, 239, 268, 339: the stores through var_pos_kw_args; the tuple
\* store decrements the pointer, the dict stores do not
VarSlotsWritten(self, n_state, n_args, n_kw) ==
    LET vslot == VarPosKwArgs(self, n_state)
        vp == IF self.takes_var_args THEN vslot - 1 ELSE vslot
        posOk == n_args <= self.n_pos_args \/ self.takes_var_args
        enough == n_kw # 0 \/ self.has_def_kw_args
                  \/ n_args >= self.n_pos_args - self.n_def_args
        kwPath == n_kw # 0 \/ self.has_def_kw_args
    IN [tuple |-> IF self.takes_var_args THEN {vslot} ELSE {},
        dict |-> IF posOk /\ enough /\ self.takes_kw_args
                    /\ (kwPath \/ self.n_kwonly_args = 0)
                 THEN {vp} ELSE {}]

\* the stage results the later statements start from: after the copy of the
\* positional arguments, after the keyword pairs, after the defaults
StageStates(self, n_state, n_args, n_kw, args) ==
    LET kwargs == SubSeq(args, n_args + 1, Len(args))
        st0 == CheckPositional(self, n_state, n_args, n_kw, args)
        st1 == [st0 EXCEPT !.state = CopyPositional(n_state, st0.n_args, args, st0.state)]
        stD == IF self.takes_kw_args
               THEN [st1 EXCEPT !.state[st1.vp] = mp_obj_new_dict(n_kw)]
               ELSE st1
        stL == KwLoop(self, n_state, kwargs, n_kw, st1.vp, 0, stD)
        st3 == [stL EXCEPT !.state = FillDefaultsKw(self, n_state, stL.state)]
    IN [pos |-> st1, dict |-> stD, pairs |-> stL, defs |-> st3,
        kwPath |-> st0.err = NoErr /\ (n_kw # 0 \/ self.has_def_kw_args),
        mandatory |-> CheckMandatoryPositional(self, n_state, st3.state)]

\* lines 272-290: the keyword pairs (0-based) whose value is stored in a
\* parameter slot: the loop reaches the pair and finds the slot empty, that
\* is, the loop over the pairs up to this one does not raise
PairsStored(self, n_state, kwargs, n_kw, sg) ==
    {i \in 0 .. n_kw - 1 :
        /\ sg.kwPath
        /\ FindParam(self, MP_OBJ_QSTR_VALUE(kwargs[2 * i + 1])) >= 0
        /\ \/ sg.pairs.err = NoErr
           \/ KwLoop(self, n_state, kwargs, i + 1, sg.pos.vp, 0, sg.dict).err = NoErr}

\* lines 317-330: the keyword-only parameters (0-based among them) whose
\* slot the loop finds empty, it having found a value for all before them
KwOnlyEmpty(self, n_state, sg) ==
    LET x(i) == n_state - 1 - self.n_pos_args - i
        found(i) == /\ self.has_def_kw_args
                    /\ mp_map_lookup(self.extra_args[self.n_def_args + 1],
                           MP_OBJ_NEW_QSTR(self.args[self.n_pos_args + i + 1])) # 0
    IN {i \in 0 .. self.n_kwonly_args - 1 :
          /\ sg.kwPath /\ sg.pairs.err = NoErr /\ sg.mandatory = NoErr
          /\ sg.defs.state[x(i)] = MP_OBJ_NULL
          /\ \A h \in 0 .. i - 1 : sg.defs.state[x(h)] # MP_OBJ_NULL \/ found(h)}

\* the positional parameters given a default: lines 246-248 without
\* keywords, lines 295-302 (those whose slot is still empty) with them
DefaultsFilled(self, n_state, n_args, n_kw, sg) ==
    LET P == self.n_pos_args
        D == self.n_def_args
    IN IF n_kw = 0 /\ ~self.has_def_kw_args
       THEN IF n_args <= P /\ n_args >= P - D THEN n_args .. P - 1 ELSE {}
       ELSE IF sg.kwPath /\ sg.pairs.err = NoErr
            THEN {P - 1 - t : t \in {u \in 0 .. D - 1 :
                                  sg.pairs.state[n_state - P + u] = MP_OBJ_NULL}}
            ELSE {}

\* the memory the run addresses: w, the frame indices stored to by kind of
\* statement; r, the indices of extra_args loaded from (line 247 without
\* keywords; *s of lines 296-300 and extra_args[n_def_args] of line 321)
MemoryAccesses(self, n_state, n_args, n_kw, args) ==
    LET kwargs == SubSeq(args, n_args + 1, Len(args))
        sg == StageStates(self, n_state, n_args, n_kw, args)
        P == self.n_pos_args
        D == self.n_def_args
        v == VarSlotsWritten(self, n_state, n_args, n_kw)
        filled == DefaultsFilled(self, n_state, n_args, n_kw, sg)
        kwEmpty == KwOnlyEmpty(self, n_state, sg)
    IN [w |-> [zeroed |-> 0 .. n_state - 1,
               tuple |-> v.tuple,
               dict |-> v.dict,
               pos |-> IF sg.pos.err = NoErr
                       THEN {n_state - 1 - i : i \in 0 .. sg.pos.n_args - 1} ELSE {},
               kw |-> {n_state - 1 - FindParam(self, MP_OBJ_QSTR_VALUE(kwargs[2 * i + 1])) :
                         i \in PairsStored(self, n_state, kwargs, n_kw, sg)},
               defs |-> IF n_kw = 0 /\ ~self.has_def_kw_args
                        THEN {n_state - 1 - i : i \in filled}
                        ELSE {(n_state - P) + (P - 1 - j) : j \in filled},
               kwonly |-> {n_state - 1 - P - i :
                             i \in {h \in kwEmpty :
                                      self.has_def_kw_args /\
                                      mp_map_lookup(self.extra_args[D + 1],
                                          MP_OBJ_NEW_QSTR(self.args[P + h + 1])) # 0}}],
        r |-> [pos |-> IF n_kw = 0 /\ ~self.has_def_kw_args
                       THEN {i - (P - D) : i \in filled}
                       ELSE {(D - 1) - (P - 1 - j) : j \in filled},
               kwdict |-> IF self.has_def_kw_args /\ kwEmpty # {} THEN {D} ELSE {}]]

\* ------------------------------------------------------------------------
\* State
VARIABLES
    funs,        \* the function objects built so far, in order of creation
    mp_globals,  \* the active global namespace (mp_globals_get / _set)
    bind,        \* the last run of mp_setup_code_state: its inputs and result
    stack,       \* the fun_bc_call invocations whose body is executing, outermost first
    heap,        \* the number of code states taken from the heap and not freed
    last,        \* what the last finished fun_bc_call gave its caller
    aborted,     \* an assert(0) has stopped the program
    pin,         \* the Pin class: its mapper, its mapping dict, the last pin_find
    gpio,        \* the GPIO hardware: the port clocks that are enabled and what
                 \* HAL_GPIO_Init has last written for each pin
    pcall,       \* the last call of the Pin constructor or of pin.init
    rng,         \* the range object made, the last operation on it, its slice, its
                 \* iterator and the values that iterator has yielded
    ncall        \* the last call of a native, viper or inline-assembler function,
                 \* or the last binary operation on a function: inputs and result

vars == <<funs, mp_globals, bind, stack, heap, last, aborted, ncall, pin, gpio, pcall, rng>>

\* the namespaces of the model, by identity
Namespaces == {1, 2}

NoBind == [done |-> FALSE, n_state |-> 0, n_args |-> 0, n_kw |-> 0, args |-> <<>>,
           res |-> [state |-> ZeroState(0), err |-> NoErr, n_args |-> 0, vp |-> 0]]

\* ------------------------------------------------------------------------
\* Inputs

\* parameter j of every modelled function is named by qstr j+1
ParamNames(n) == [j \in 1 .. n |-> j]

\* the keyword names a caller of self may use: the parameter names and two
\* names of no parameter
KwNames(self) == 1 .. (self.n_pos_args + self.n_kwonly_args + 2)

\* the value a caller passes in keyword pair i (1-based): the values of the
\* positional arguments again, so that a keyword may repeat the value
\* already bound to its parameter or differ from it
KwVal(i) == Obj(i)

\* the positional argument array of a call with n arguments
PosArgs(n) == [i \in 1 .. n |-> Obj(i)]

\* the captured positional defaults: MP_OBJ_NULL when the function has none
DefArgs(d) == IF d = 0 THEN MP_OBJ_NULL
              ELSE mp_obj_new_tuple(d, [i \in 1 .. d |-> Obj(10 + i)])

\* the keyword-defaults dicts for parameters n_pos_args .. n_pos_args+k-1:
\* none, or (withDict) a dict with an entry for the first e of them
DefKwChoices(n_pos_args, k, withDict) ==
    {MP_OBJ_NULL} \cup
    (IF withDict
     THEN {DictOf([i \in 1 .. e |-> <<MP_OBJ_NEW_QSTR(n_pos_args + i), Obj(20 + i)>>]) :
              e \in 0 .. k}
     ELSE {})

\* flat keyword pairs: name object, value, name object, value, ...
KwArrays(n, names) ==
    {[x \in 1 .. 2 * n |-> IF x % 2 = 1 THEN MP_OBJ_NEW_QSTR(q[(x + 1) \div 2])
                                         ELSE KwVal(x \div 2)] :
        q \in [1 .. n -> names]}

\* the slots a frame needs for its arguments
ArgSlots(n_pos_args, n_kwonly_args, scope_flags) ==
    n_pos_args + n_kwonly_args
    + (IF FlagSet(scope_flags, MP_SCOPE_FLAG_VARARGS) THEN 1 ELSE 0)
    + (IF FlagSet(scope_flags, MP_SCOPE_FLAG_VARKEYWORDS) THEN 1 ELSE 0)

\* the closed-over lists of the prelude: none, or (withClosed) one local,
\* the first of the frame or the last of its n_slots argument locals
ClosedChoices(n_slots, withClosed) ==
    {<<>>} \cup (IF withClosed
                 THEN {<<l>> : l \in {0, n_slots - 1} \cap (0 .. n_slots)}
                 ELSE {})

\* a family of function shapes: the arguments of mp_obj_new_fun_bc and the
\* bytecode header
Shapes(maxPos, maxKwOnly, flagSet, excSet, withDefaults, withClosed) ==
    UNION {UNION {
        LET n_slots == ArgSlots(n_pos_args, n_kwonly_args, scope_flags)
            n_state == n_slots + FrameSlack
        IN {[scope_flags |-> scope_flags, n_pos_args |-> n_pos_args,
             n_kwonly_args |-> n_kwonly_args, n_def_args |-> n_def_args,
             def_kw_args |-> def_kw_args,
             code |-> [n_state |-> n_state, n_exc_stack |-> n_exc_stack,
                       closed |-> closed]] :
              n_def_args \in (IF withDefaults THEN 0 .. n_pos_args ELSE {0}),
              def_kw_args \in DefKwChoices(n_pos_args, n_kwonly_args, withDefaults),
              closed \in ClosedChoices(n_slots, withClosed)} :
          scope_flags \in flagSet, n_exc_stack \in excSet} :
      n_pos_args \in 0 .. maxPos, n_kwonly_args \in 0 .. maxKwOnly}

\* ------------------------------------------------------------------------
\* Actions

\* MAKE_FUNCTION: build a function object under the active namespace
NewFunBc(maxFuns, shapes) ==
    /\ Len(funs) < maxFuns
    /\ \E sh \in shapes :
          funs' = Append(funs,
              mp_obj_new_fun_bc(mp_globals, sh.scope_flags,
                  ParamNames(sh.n_pos_args + sh.n_kwonly_args),
                  sh.n_pos_args, sh.n_kwonly_args, DefArgs(sh.n_def_args),
                  sh.def_kw_args, sh.code))

\* one run of mp_setup_code_state on a fresh frame of the function
SetupCodeState ==
    /\ Len(funs) = 1
    /\ ~bind.done
    /\ \E n_args \in 0 .. MaxPos + 1, n_kw \in 0 .. MaxKw :
        \E kwargs \in KwArrays(n_kw, KwNames(funs[1])) :
          LET self == funs[1]
              args == PosArgs(n_args) \o kwargs
          IN bind' = [done |-> TRUE, n_state |-> self.bytecode.n_state,
                      n_args |-> n_args, n_kw |-> n_kw, args |-> args,
                      res |-> mp_setup_code_state(self, self.bytecode.n_state,
                                  self.bytecode.closed, n_args, n_kw, args)]
    /\ UNCHANGED <<funs, mp_globals, stack, heap, last, aborted, ncall, pin, gpio, pcall, rng>>

\* the frame of the finished run is dropped
DropCodeState ==
    /\ bind.done
    /\ bind' = NoBind
    /\ UNCHANGED <<funs, mp_globals, stack, heap, last, aborted, ncall, pin, gpio, pcall, rng>>

\* every shape of function the binder is run on
BindShapes == Shapes(MaxPos, MaxKwOnly,
                     {0, MP_SCOPE_FLAG_VARARGS, MP_SCOPE_FLAG_VARKEYWORDS,
                      MP_SCOPE_FLAG_VARARGS + MP_SCOPE_FLAG_VARKEYWORDS},
                     {0}, TRUE, TRUE)

BindNewFun ==
    /\ NewFunBc(1, BindShapes)
    /\ UNCHANGED <<mp_globals, bind, stack, heap, last, aborted, ncall, pin, gpio, pcall, rng>>

\* what a caller has been given: nothing yet, a value, or an exception
NoOutcome == [kind |-> "none", val |-> MP_OBJ_NULL, exc |-> NoErr]
Returned(val) == [kind |-> "return", val |-> val, exc |-> NoErr]
Raised(exc) == [kind |-> "raise", val |-> MP_OBJ_NULL, exc |-> exc]

\* a machine word that is a number, and one that is an address: of an
\* object, of the character data of a str, of the item array of a tuple or
\* list, of the memory of a buffer
IntWord(v) == [k |-> "int", v |-> v, to |-> "", of |-> MP_OBJ_NULL]

\* where the objects lie: the program does not decide it, the allocator does.
\* The heap starts at HeapBase, the objects of one type lie ObjBytes apart in
\* the order of their id, each type in a region of its own, and the data of
\* an object (characters, items, buffer) follows its header.  No object lies
\* at address 0.
HeapBase == 2 ^ 29
ObjBytes == 2 ^ 4
TypeRegion(t) ==
    CASE t = "obj" -> 0 [] t = "str" -> 1 [] t = "tuple" -> 2 [] t = "list" -> 3
      [] t = "bytearray" -> 4 [] t = "float" -> 5 [] OTHER -> 6

\* (mp_uint_t) of an object or of a part of it: the address; a small int or
\* a qstr is held in the object word itself, tagged in its low bits
Address(to, obj) ==
    IF to = "obj" /\ obj.t = "int" THEN 2 * obj.id + 1
    ELSE IF to = "obj" /\ obj.t = "qstr" THEN 4 * obj.id + 2
    ELSE HeapBase + TypeRegion(obj.t) * (2 ^ 16)
           + ObjBytes * ((IF obj.id < 0 THEN -obj.id ELSE obj.id) % (2 ^ 12))
           + (IF to = "obj" THEN 0 ELSE ObjBytes \div 2)

PtrWord(to, obj) == [k |-> "ptr", v |-> Address(to, obj), to |-> to, of |-> obj]

\* the constant None
mp_const_none == [t |-> "none", id |-> 0, items |-> <<>>, map |-> <<>>]

\* no pin_find has been made
NoFind == [done |-> FALSE, user_obj |-> MP_OBJ_NULL, called |-> mp_const_none,
           res |-> [err |-> NoErr, pin_obj |-> MP_OBJ_NULL, consulted |-> <<>>]]

\* pin_init0: no mapper, no mapping dict
pin_init0 == [mapper |-> mp_const_none, map_dict |-> mp_const_none, find |-> NoFind]

\* the GPIO hardware after reset: no port clock enabled, no pin configured
NoGpioInit == [Pin |-> 0, Mode |-> 0, Pull |-> 0, Speed |-> 0, Alternate |-> 0]

\* the pins of the board, by the id of their pin object
PinIds == 1 .. 4

GpioReset == [clk |-> {}, init |-> [p \in PinIds |-> NoGpioInit]]

\* neither the Pin constructor nor pin.init has been called
NoPinCall == [op |-> "none", n_args |-> 0, n_kw |-> 0, args |-> <<>>,
              res |-> [err |-> NoErr, ret |-> MP_OBJ_NULL]]

\* no range has been made
NoRange == [made |-> FALSE, r |-> [start |-> 0, stop |-> 0, step |-> 0],
            q |-> [kind |-> "none", v |-> 0, r |-> [start |-> 0, stop |-> 0, step |-> 0]],
            sliced |-> FALSE, a |-> 0, b |-> 0, sl |-> [start |-> 0, stop |-> 0, step |-> 0],
            iter |-> FALSE, it |-> [cur |-> 0, stop |-> 0, step |-> 0],
            yielded |-> <<>>, stopped |-> FALSE]

\* no native call or binary operation has been made
NoCall == [op |-> "none", self |-> MP_OBJ_NULL, bop |-> "", n_args |-> 0, n_kw |-> 0,
           args |-> <<>>, build |-> "", float_on |-> FALSE, word |-> IntWord(0),
           res |-> [err |-> NoErr, inv |-> <<>>, fatal |-> FALSE, ret |-> MP_OBJ_NULL]]

Init ==
    /\ funs = <<>>
    /\ mp_globals = 1
    /\ bind = NoBind
    /\ stack = <<>>
    /\ heap = 0
    /\ last = NoOutcome
    /\ aborted = FALSE
    /\ ncall = NoCall
    /\ pin = pin_init0
    /\ gpio = GpioReset
    /\ pcall = NoPinCall
    /\ rng = NoRange

\* the argument binder on its own: every function shape, every call
NextBind == BindNewFun \/ SetupCodeState \/ DropCodeState

SpecBind == Init /\ [][NextBind]_vars

\* the same machine, under which the order of the binder's stages is examined
SpecBindStages == Init /\ [][NextBind]_vars

\* the same machine, under which the memory the binder addresses is examined
SpecBindMemory == Init /\ [][NextBind]_vars

\* ------------------------------------------------------------------------
\* Properties of the argument binder (checked under SpecBind)

\* the function of the finished binder run, and its shape
BF == funs[1]
BP == BF.n_pos_args
BK == BF.n_kwonly_args
BD == BF.n_def_args

\* the frame slot of local i after the run
BSlot(i) == bind.res.state[bind.n_state - 1 - i]

\* local i is in the closed-over list of the prelude
IsClosed(i) == \E k \in DOMAIN BF.bytecode.closed : BF.bytecode.closed[k] = i

\* the value bound to local i: the slot's content, read through the closure
\* cell the prelude of a successful run puts around a closed-over local
Bound(i) == IF bind.res.err = NoErr /\ IsClosed(i) THEN BSlot(i).items[1] ELSE BSlot(i)

\* the locals of the variadic tuple and of the variadic dict
VarArgsLocal == BP + BK
VarKwLocal == BP + BK + (IF BF.takes_var_args THEN 1 ELSE 0)

\* the keyword pairs of the call: name and value of pair i (0-based)
KwName(i) == MP_OBJ_QSTR_VALUE(bind.args[bind.n_args + 2 * i + 1])
KwValue(i) == bind.args[bind.n_args + 2 * i + 2]
KwIdx == 0 .. bind.n_kw - 1

\* the number of positional arguments that land in parameter slots
NPosBound == IF bind.n_args > BP THEN BP ELSE bind.n_args

\* pair i names a declared parameter
IsParamName(q) == q >= 1 /\ q <= BP + BK

\* pair i cannot be bound: its name is unknown and there is no variadic
\* dict, or its parameter already has a value (positional, or an earlier pair)
BadPair(i) ==
    \/ ~IsParamName(KwName(i)) /\ ~BF.takes_kw_args
    \/ /\ IsParamName(KwName(i))
       /\ \/ KwName(i) - 1 < NPosBound
          \/ \E h \in KwIdx : h < i /\ KwName(h) = KwName(i)

\* too many positional arguments for a function without a variadic tuple
PosExcess == bind.n_args > BP /\ ~BF.takes_var_args

\* parameter j (0-based) is given by the caller, by position or by name
Supplied(j) == j < NPosBound \/ \E i \in KwIdx : KwName(i) = j + 1

\* the keyword-defaults dict has an entry for parameter j
HasKwDefault(j) ==
    /\ BF.has_def_kw_args
    /\ \E e \in DOMAIN BF.extra_args[BD + 1].map :
          BF.extra_args[BD + 1].map[e][1] = MP_OBJ_NEW_QSTR(j + 1)

ErrKinds == {"ArityMismatch", "DuplicateArgument", "UnexpectedKeyword",
             "MissingRequiredPositional", "MissingRequiredKeyword", "MissingKeywordOnly"}

\* the pairs of the call that match no parameter
UnmatchedIdx == {i \in KwIdx : ~IsParamName(KwName(i))}

\* C1 (as stated): a run ends in a binding failure or in a frame whose
\* parameter slots are all non-null, whose variadic-positional slot holds a
\* tuple (empty without excess) and whose variadic-keyword slot holds a
\* mapping (empty without unmatched keyword).
C1_AsStated ==
    bind.done =>
      \/ bind.res.err.kind \in ErrKinds
      \/ /\ bind.res.err = NoErr
         /\ \A j \in 0 .. BP + BK - 1 : BSlot(j) # MP_OBJ_NULL
         /\ BF.takes_var_args =>
              /\ BSlot(VarArgsLocal).t = "tuple"
              /\ bind.n_args <= BP => BSlot(VarArgsLocal) = mp_const_empty_tuple
         /\ BF.takes_kw_args =>
              /\ BSlot(VarKwLocal).t = "dict"
              /\ UnmatchedIdx = {} => BSlot(VarKwLocal).map = <<>>

\* C1 (amended): a run ends in a binding failure or in a frame whose
\* parameter slots are all non-null and whose variadic-positional local is a
\* tuple (empty without excess) and variadic-keyword local a mapping (empty
\* without unmatched keyword), the slot holding that object itself or, when
\* the local is closed over, a closure cell around it.
C1_FrameComplete ==
    bind.done =>
      \/ bind.res.err.kind \in ErrKinds
      \/ /\ bind.res.err = NoErr
         /\ \A j \in 0 .. BP + BK - 1 : BSlot(j) # MP_OBJ_NULL /\ Bound(j) # MP_OBJ_NULL
         /\ BF.takes_var_args =>
              /\ BSlot(VarArgsLocal).t = (IF IsClosed(VarArgsLocal) THEN "cell" ELSE "tuple")
              /\ Bound(VarArgsLocal).t = "tuple"
              /\ bind.n_args <= BP => Bound(VarArgsLocal) = mp_const_empty_tuple
         /\ BF.takes_kw_args =>
              /\ BSlot(VarKwLocal).t = (IF IsClosed(VarKwLocal) THEN "cell" ELSE "dict")
              /\ Bound(VarKwLocal).t = "dict"
              /\ UnmatchedIdx = {} => Bound(VarKwLocal).map = <<>>

C1_Witness ==
    /\ bind.done /\ bind.res.err = NoErr
    /\ BP >= 1 /\ BK = 1 /\ BF.takes_var_args /\ BF.takes_kw_args
    /\ bind.n_kw = 1 /\ bind.n_args = 0
    /\ IsClosed(VarKwLocal)
    /\ BSlot(VarKwLocal).t = "cell"
    /\ BSlot(VarArgsLocal) = mp_const_empty_tuple

\* every keyword-only parameter has an entry in the keyword-defaults dict
AllKwOnlyDefaulted == \A j \in BP .. BP + BK - 1 : HasKwDefault(j)

\* the positional part of a frame as the claims C2 describe it: the first k
\* slots from the arguments in order, the rest from the trailing defaults
PosFromArgsAndDefaults ==
    /\ \A i \in 0 .. bind.n_args - 1 : Bound(i) = bind.args[i + 1]
    /\ \A i \in bind.n_args .. BP - 1 : Bound(i) = BF.extra_args[i - (BP - BD) + 1]

\* C2 (as stated): with P-D <= k <= P positional and no keyword arguments
\* the call succeeds, slots [0,k) are the arguments in order and slot i in
\* [k,P) is default number i-(P-D).
C2_AsStated ==
    (bind.done /\ bind.n_kw = 0 /\ BP - BD <= bind.n_args /\ bind.n_args <= BP)
      => (bind.res.err = NoErr /\ PosFromArgsAndDefaults)

\* C2 (amended): the same, for a function whose keyword-only parameters (if
\* any) all have an entry in the keyword-defaults dict.
C2_DefaultsRightAligned ==
    (bind.done /\ bind.n_kw = 0 /\ BP - BD <= bind.n_args /\ bind.n_args <= BP
       /\ AllKwOnlyDefaulted)
      => (bind.res.err = NoErr /\ PosFromArgsAndDefaults)

C2_Witness ==
    /\ bind.done /\ bind.n_kw = 0 /\ bind.res.err = NoErr
    /\ BP = 2 /\ BD = 1 /\ bind.n_args = 1
    /\ BSlot(0) = Obj(1) /\ BSlot(1) = Obj(11)

\* C3: more positional arguments than parameters, no variadic tuple: the
\* call fails with ArityMismatch(expected = P, given = k) whatever keyword
\* pairs it carries.
C3_ExcessIsArityMismatch ==
    (bind.done /\ bind.n_args > BP /\ ~BF.takes_var_args)
      => bind.res.err = fun_pos_args_mismatch(BP, bind.n_args)

C3_Witness ==
    /\ bind.done /\ bind.n_args > BP /\ ~BF.takes_var_args /\ ~BF.takes_kw_args
    /\ BP >= 1 /\ bind.n_kw = 2
    /\ KwName(0) = 1                     \* names a parameter given by position
    /\ ~IsParamName(KwName(1))           \* names no parameter
    /\ bind.res.err.kind = "ArityMismatch"

\* C4: more positional arguments than parameters, with a variadic tuple: no
\* ArityMismatch, the variadic tuple is args[P..k-1] in order and the first
\* P arguments are in the P positional slots.
C4_ExcessGoesToTuple ==
    (bind.done /\ bind.n_args > BP /\ BF.takes_var_args)
      => /\ bind.res.err.kind # "ArityMismatch"
         /\ Bound(VarArgsLocal).t = "tuple"
         /\ Bound(VarArgsLocal).items = [i \in 1 .. bind.n_args - BP |-> bind.args[BP + i]]
         /\ \A i \in 0 .. BP - 1 : Bound(i) = bind.args[i + 1]

C4_Witness ==
    /\ bind.done /\ bind.res.err = NoErr /\ BF.takes_var_args
    /\ BP = 1 /\ bind.n_args = 3
    /\ BSlot(VarArgsLocal).items = <<Obj(2), Obj(3)>>

\* pair i names a parameter whose slot a positional argument has filled
NamesPositionallyFilled(i) == KwName(i) >= 1 /\ KwName(i) - 1 < NPosBound

\* C5 (as stated): a keyword naming a slot filled by a positional argument
\* makes the call fail with DuplicateArgument for that name.
C5_AsStated ==
    bind.done =>
      \A i \in KwIdx : NamesPositionallyFilled(i)
         => bind.res.err = DuplicateArgument(KwName(i))

\* C5 (amended): such a call always fails; it fails with DuplicateArgument
\* for that name unless the positional excess is detected first or an
\* earlier keyword pair of the call cannot be bound either.
C5_DuplicateFails ==
    bind.done =>
      \A i \in KwIdx : NamesPositionallyFilled(i)
         => /\ bind.res.err.kind \in {"ArityMismatch", "DuplicateArgument", "UnexpectedKeyword"}
            /\ (~PosExcess /\ \A h \in KwIdx : h < i => ~BadPair(h))
                  => bind.res.err = DuplicateArgument(KwName(i))

C5_Witness ==
    /\ bind.done /\ bind.n_args = 1 /\ BP = 1 /\ bind.n_kw = 1
    /\ KwName(0) = 1 /\ KwValue(0) = bind.args[1]
    /\ bind.res.err = DuplicateArgument(1)

\* C6 (as stated): a keyword naming no parameter, on a function without a
\* variadic dict, makes the call fail with UnexpectedKeyword.
C6_AsStated ==
    (bind.done /\ ~BF.takes_kw_args) =>
      \A i \in KwIdx : ~IsParamName(KwName(i)) => bind.res.err = UnexpectedKeyword

\* C6 (amended): such a call always fails; it fails with UnexpectedKeyword
\* unless the positional excess is detected first or an earlier keyword pair
\* of the call cannot be bound either.
C6_UnknownFails ==
    (bind.done /\ ~BF.takes_kw_args) =>
      \A i \in KwIdx : ~IsParamName(KwName(i))
         => /\ bind.res.err.kind \in {"ArityMismatch", "DuplicateArgument", "UnexpectedKeyword"}
            /\ (~PosExcess /\ \A h \in KwIdx : h < i => ~BadPair(h))
                  => bind.res.err = UnexpectedKeyword

C6_Witness ==
    /\ bind.done /\ ~BF.takes_kw_args /\ bind.n_kw = 2 /\ BP = 2 /\ bind.n_args = 1
    /\ KwName(0) = 2 /\ ~IsParamName(KwName(1))
    /\ bind.res.err = UnexpectedKeyword

\* the same function with a variadic-keyword slot added to its frame
WithVarKw(f) == [f EXCEPT !.takes_kw_args = TRUE, !.bytecode.n_state = @ + 1]

\* the call of the finished run, made on that function instead
OnVarKw == mp_setup_code_state(WithVarKw(BF), bind.n_state + 1, BF.bytecode.closed,
                               bind.n_args, bind.n_kw, bind.args)

\* the variadic dict that run leaves in local VarKwLocal
VarKwDict ==
    LET o == OnVarKw.state[bind.n_state - VarKwLocal]
    IN IF OnVarKw.err = NoErr /\ IsClosed(VarKwLocal) THEN o.items[1] ELSE o

DictEntries(d) == {d.map[e] : e \in DOMAIN d.map}

\* pair i is the last pair of the call with its name
LastOfName(i) == \A h \in KwIdx : KwName(h) = KwName(i) => h <= i

\* some pair names a parameter that already has a value
SomeDuplicate ==
    \E i \in KwIdx : IsParamName(KwName(i)) /\
        (KwName(i) - 1 < NPosBound \/ \E h \in KwIdx : h < i /\ KwName(h) = KwName(i))

\* a positional parameter without default is not supplied
SomePositionalMissing == \E j \in 0 .. BP - BD - 1 : ~Supplied(j)

\* a keyword-only parameter is neither supplied nor defaulted
KwOnlyMissing(j) == ~(\E i \in KwIdx : KwName(i) = j + 1) /\ ~HasKwDefault(j)

\* C7 (as stated): when a call fails with UnexpectedKeyword, the same call
\* on the function with a variadic dict succeeds and the dict holds exactly
\* the pairs whose names match no parameter.
C7_AsStated ==
    (bind.done /\ ~BF.takes_kw_args /\ bind.res.err = UnexpectedKeyword)
      => /\ OnVarKw.err = NoErr
         /\ DictEntries(VarKwDict) =
              {<<MP_OBJ_NEW_QSTR(KwName(i)), KwValue(i)>> : i \in UnmatchedIdx}

\* C7 (amended): when a call fails with UnexpectedKeyword, the same call on
\* the function with a variadic dict never fails with UnexpectedKeyword; it
\* succeeds exactly when no pair names a parameter that already has a value,
\* no positional parameter without default is left out and no keyword-only
\* parameter is left without value; the dict then has one entry per name
\* that matches no parameter, with the value of the last pair of that name.
C7_VarKwCollectsUnmatched ==
    (bind.done /\ ~BF.takes_kw_args /\ bind.res.err = UnexpectedKeyword)
      => /\ OnVarKw.err.kind # "UnexpectedKeyword"
         /\ OnVarKw.err = NoErr <=>
              (/\ ~SomeDuplicate
               /\ ~SomePositionalMissing
               /\ \A j \in BP .. BP + BK - 1 : ~KwOnlyMissing(j))
         /\ OnVarKw.err = NoErr =>
              /\ VarKwDict.t = "dict"
              /\ Len(VarKwDict.map) = Cardinality({KwName(i) : i \in UnmatchedIdx})
              /\ DictEntries(VarKwDict) =
                   {<<MP_OBJ_NEW_QSTR(KwName(i)), KwValue(i)>> :
                       i \in {h \in UnmatchedIdx : LastOfName(h)}}

C7_Witness ==
    /\ bind.done /\ ~BF.takes_kw_args /\ bind.res.err = UnexpectedKeyword
    /\ bind.n_kw = 2 /\ BP = 2 /\ bind.n_args = 1
    /\ KwName(0) = 2 /\ ~IsParamName(KwName(1))
    /\ OnVarKw.err = NoErr
    /\ VarKwDict.map = <<<<MP_OBJ_NEW_QSTR(KwName(1)), KwValue(1)>>>>

\* the keyword-only parameters left without value, and the first of them
KwOnlyMissingSet == {j \in BP .. BP + BK - 1 : KwOnlyMissing(j)}
FirstKwOnlyMissing == CHOOSE j \in KwOnlyMissingSet : \A k \in KwOnlyMissingSet : j <= k

\* the value bound by name: pair i of a successful call names parameter j
BoundByName == \A i \in KwIdx : \A j \in BP .. BP + BK - 1 :
                  (KwName(i) = j + 1 /\ bind.res.err = NoErr) => Bound(j) = KwValue(i)

\* C8 (as stated): a keyword-only parameter that is not supplied by name and
\* has no keyword default makes the call fail, with MissingKeywordOnly when
\* no keywords were given and MissingRequiredKeyword otherwise, positional
\* defaults or not; supplied by name, it is bound to that value.
C8_AsStated ==
    bind.done =>
      /\ \A j \in KwOnlyMissingSet :
            /\ bind.n_kw = 0 => bind.res.err = MissingKeywordOnly
            /\ bind.n_kw # 0 => bind.res.err = MissingRequiredKeyword(j + 1)
      /\ BoundByName

\* C8 (amended): such a call always fails and the parameter's slot stays
\* empty; unless an earlier check fails (ArityMismatch, DuplicateArgument,
\* UnexpectedKeyword, MissingRequiredPositional) the failure is
\* MissingKeywordOnly when no keywords are given and there is no
\* keyword-defaults dict, and otherwise MissingRequiredKeyword for the first
\* such parameter; supplied by name, it is bound to that value.
C8_KwOnlyNeverDefaulted ==
    bind.done =>
      /\ \A j \in KwOnlyMissingSet :
            /\ bind.res.err.kind \in ErrKinds
            /\ BSlot(j) = MP_OBJ_NULL
            /\ (bind.n_kw = 0 /\ ~BF.has_def_kw_args /\ ~PosExcess
                  /\ bind.n_args >= BP - BD)
                 => bind.res.err = MissingKeywordOnly
            /\ ((bind.n_kw # 0 \/ BF.has_def_kw_args) /\ ~PosExcess
                  /\ (\A i \in KwIdx : ~BadPair(i)) /\ ~SomePositionalMissing)
                 => bind.res.err = MissingRequiredKeyword(FirstKwOnlyMissing + 1)
      /\ BoundByName

C8_Witness ==
    /\ bind.done /\ BK = 1 /\ BP = 1 /\ BD = 1 /\ ~BF.has_def_kw_args
    /\ bind.n_args = 0 /\ bind.n_kw = 0
    /\ bind.res.err = MissingKeywordOnly
    /\ BSlot(0) = Obj(11) /\ BSlot(1) = MP_OBJ_NULL

\* the keyword path of the binder is taken and its keyword pairs all bound
KwPathReachedDefaults ==
    /\ bind.done
    /\ bind.n_kw # 0 \/ BF.has_def_kw_args
    /\ bind.res.err.kind \notin {"ArityMismatch", "DuplicateArgument", "UnexpectedKeyword"}

\* the value the caller gives parameter j
SuppliedValue(j) ==
    IF j < NPosBound THEN bind.args[j + 1]
    ELSE KwValue(CHOOSE i \in KwIdx : KwName(i) = j + 1)

\* C9: in the keyword path, once the pairs are bound and the defaults
\* applied, a positional parameter left without value makes the call fail
\* with MissingRequiredPositional; a supplied value is never replaced by a
\* default, which goes only to a parameter the caller did not supply.
C9_DefaultsOnlyIntoEmpty ==
    KwPathReachedDefaults =>
      /\ SomePositionalMissing => bind.res.err.kind = "MissingRequiredPositional"
      /\ ~SomePositionalMissing => bind.res.err.kind # "MissingRequiredPositional"
      /\ \A j \in 0 .. BP - 1 :
            /\ Supplied(j) => Bound(j) = SuppliedValue(j)
            /\ (~Supplied(j) /\ j >= BP - BD) => Bound(j) = BF.extra_args[j - (BP - BD) + 1]
            /\ (~Supplied(j) /\ j < BP - BD) => Bound(j) = MP_OBJ_NULL

C9_Witness ==
    /\ KwPathReachedDefaults
    /\ BP = 2 /\ BD = 1 /\ bind.n_args = 0 /\ bind.n_kw = 1
    /\ KwName(0) = 2
    /\ bind.res.err = MissingRequiredPositional(0)
    /\ BSlot(1) = KwValue(0)

\* the objects handed to mp_obj_new_fun_bc as positional defaults of the
\* function, by identity: CapturedDefault(i) is the default of parameter
\* P - D + i
CapturedDefault(i) == DefArgs(BD).items[i + 1]

\* the function has a default for every positional parameter and the
\* finished run is a call with no argument at all
AllDefaultedNoArgs ==
    bind.done /\ BD = BP /\ bind.n_args = 0 /\ bind.n_kw = 0

\* C14 (as stated): with as many defaults as positional parameters and a
\* call without arguments, slot i of the frame holds the very object that
\* was captured as default i, on every invocation of the function.
C14_AsStated ==
    AllDefaultedNoArgs => \A i \in 0 .. BP - 1 : BSlot(i) = CapturedDefault(i)

\* C14 (amended): slot i holds the very object captured as default i, or,
\* when parameter i is closed over and the call succeeds, a new cell whose
\* content is that very object; on every invocation of the function.
C14_DefaultsByReference ==
    AllDefaultedNoArgs =>
      \A i \in 0 .. BP - 1 :
         IF bind.res.err = NoErr /\ IsClosed(i)
         THEN BSlot(i) = mp_obj_new_cell(CapturedDefault(i))
         ELSE BSlot(i) = CapturedDefault(i)

\* f(a=d0, b=d1) called as f(): both slots hold the captured objects
C14_Witness ==
    /\ AllDefaultedNoArgs /\ BP = 2 /\ bind.res.err = NoErr
    /\ ~IsClosed(0) /\ ~IsClosed(1)
    /\ BSlot(0) = DefArgs(2).items[1] /\ BSlot(1) = DefArgs(2).items[2]

\* what the binding steps give local i of a successful run: the caller's
\* value, else the default, for a parameter; the tuple of the excess
\* arguments; nothing for a local that is no argument
FinalValue(i) ==
    IF i < BP + BK
    THEN IF Supplied(i) THEN SuppliedValue(i)
         ELSE IF i < BP THEN BF.extra_args[i - (BP - BD) + 1]
         ELSE BF.extra_args[BD + 1].map[mp_map_lookup(BF.extra_args[BD + 1], MP_OBJ_NEW_QSTR(i + 1))][2]
    ELSE IF BF.takes_var_args /\ i = VarArgsLocal
    THEN mp_obj_new_tuple(bind.n_args - NPosBound, SubSeq(bind.args, BP + 1, bind.n_args))
    ELSE MP_OBJ_NULL

\* v is what the binding steps give local i; of the variadic dict only that
\* it is a dict
IsFinalValue(i, v) ==
    IF BF.takes_kw_args /\ i = VarKwLocal THEN v.t = "dict" ELSE v = FinalValue(i)

\* C25: the closure prelude runs after all binding steps and only when they
\* succeeded: then the slot of every local of the closed-over list holds a
\* closure cell whose content is the value the binding steps gave that local,
\* and every other slot holds that value itself; a failed run has created no
\* cell.
C25_PreludeLast ==
    bind.done =>
      IF bind.res.err # NoErr
      THEN \A i \in 0 .. bind.n_state - 1 : BSlot(i).t # "cell"
      ELSE \A i \in 0 .. bind.n_state - 1 :
             IF IsClosed(i)
             THEN /\ BSlot(i).t = "cell" /\ Len(BSlot(i).items) = 1
                  /\ IsFinalValue(i, BSlot(i).items[1])
             ELSE BSlot(i).t # "cell" /\ IsFinalValue(i, BSlot(i))

\* a closed-over parameter the caller left out, in a call with keywords: its
\* slot holds a cell around the default
C25_Witness ==
    /\ bind.done /\ bind.res.err = NoErr /\ bind.n_kw > 0
    /\ \E i \in 0 .. BP - 1 :
         /\ IsClosed(i) /\ ~Supplied(i)
         /\ BSlot(i) = mp_obj_new_cell(BF.extra_args[i - (BP - BD) + 1])
         /\ \E j \in 0 .. BP - 1 : ~IsClosed(j) /\ Supplied(j) /\ BSlot(j) = SuppliedValue(j)

\* the call carries a keyword pair that names a filled slot and one that names
\* no parameter, on a function without variadic dict
DuplicateAndUnknown ==
    /\ bind.done /\ ~BF.takes_kw_args
    /\ \E i \in KwIdx : IsParamName(KwName(i)) /\ BadPair(i)
    /\ \E i \in KwIdx : ~IsParamName(KwName(i))

\* the error of the first pair of the call that cannot be bound
FirstBadPairError ==
    LET first == CHOOSE i \in KwIdx : BadPair(i) /\ \A h \in KwIdx : h < i => ~BadPair(h)
    IN IF IsParamName(KwName(first)) THEN DuplicateArgument(KwName(first))
       ELSE UnexpectedKeyword

\* C26 as stated: such a call raises the error of whichever of the pairs
\* comes first in the call.
C26_AsStated == DuplicateAndUnknown => bind.res.err = FirstBadPairError

\* C26: such a call raises the error of whichever of the pairs comes first in
\* the call, before any check for a missing parameter, unless it has too many
\* positional arguments for a function without variadic tuple: then it raises
\* ArityMismatch and no pair is looked at.
C26_FirstBadPairWins ==
    DuplicateAndUnknown =>
      IF PosExcess THEN bind.res.err = fun_pos_args_mismatch(BP, bind.n_args)
      ELSE bind.res.err = FirstBadPairError

\* f(a, b) called as f(1, a=.., zz=..): b is missing and zz is unknown, the
\* error is the duplicate a of the first pair
C26_Witness ==
    /\ DuplicateAndUnknown /\ ~PosExcess
    /\ BP = 2 /\ BD = 0 /\ bind.n_args = 1 /\ bind.n_kw = 2
    /\ KwName(0) = 1 /\ ~IsParamName(KwName(1))
    /\ bind.res.err = DuplicateArgument(1)

\* the positional parameters without default that the caller left out
UnfilledRequired == {j \in 0 .. BP - BD - 1 : ~Supplied(j)}

\* C27: in the keyword path, once the pairs are bound, a call that leaves
\* required positional parameters unfilled fails with
\* MissingRequiredPositional for the highest 0-based index among them.
C27_HighestIndexReported ==
    (KwPathReachedDefaults /\ UnfilledRequired # {}) =>
      \E j \in UnfilledRequired :
         /\ \A h \in UnfilledRequired : h <= j
         /\ bind.res.err = [kind |-> "MissingRequiredPositional", a |-> j, b |-> 0]

\* f(a, b) called with one keyword pair for neither: parameters 0 and 1 are
\* unfilled and 1 is reported
C27_Witness ==
    /\ KwPathReachedDefaults /\ BP = 2 /\ BD = 0
    /\ UnfilledRequired = {0, 1}
    /\ bind.n_kw > 0
    /\ bind.res.err = [kind |-> "MissingRequiredPositional", a |-> 1, b |-> 0]

\* C23: with no keyword arguments and no default-keyword mapping, a call with
\* k positional arguments, k <= P and k < P - D, fails with
\* ArityMismatch(expected = P - D, given = k), with and without a variadic
\* positional parameter; MissingRequiredPositional is not raised there.
C23_TooFewIsArityMismatch ==
    (/\ bind.done /\ bind.n_kw = 0 /\ ~BF.has_def_kw_args
     /\ bind.n_args <= BP /\ bind.n_args < BP - BD)
    => bind.res.err = [kind |-> "ArityMismatch", a |-> BP - BD, b |-> bind.n_args]

\* f(a, b=.., *args) called with no argument: one was expected, none given
C23_Witness ==
    /\ bind.done /\ bind.n_kw = 0 /\ ~BF.has_def_kw_args
    /\ BF.takes_var_args /\ BP = 2 /\ BD = 1 /\ bind.n_args = 0
    /\ bind.res.err = [kind |-> "ArityMismatch", a |-> 1, b |-> 0]

\* the slots the function's arguments need: the parameters and the variadics
SlotsNeeded == BP + BK + (IF BF.takes_var_args THEN 1 ELSE 0) + (IF BF.takes_kw_args THEN 1 ELSE 0)

\* what the run of the binder stored to and loaded from
BMem == MemoryAccesses(BF, bind.n_state, bind.n_args, bind.n_kw, bind.args)

\* the slots stored to after the frame was zeroed
ArgStores(w) == w.tuple \cup w.dict \cup w.pos \cup w.kw \cup w.defs \cup w.kwonly

\* C28: provided D <= P and n_state >= P + K + (1 if variadic-positional) +
\* (1 if variadic-keyword), every frame slot the binder writes has an index in
\* [0, n_state) (the argument stores stay within the topmost slots the
\* arguments need, and no other slot ends up with a value) and every index it reads in the captured defaults lies in
\* [0, D), plus D for the keyword-defaults dict when the function has one;
\* parameter i lives at slot n_state-1-i, the variadic tuple's slot is the one
\* directly above the variadic dict's, and both are below the parameters'.
C28_BinderStaysInBounds ==
    (bind.done /\ BD <= BP /\ bind.n_state >= SlotsNeeded) =>
      LET m == BMem
          w == m.w
          r == m.r
          stores == ArgStores(w)
      IN /\ w.zeroed \cup stores \subseteq 0 .. bind.n_state - 1
         /\ stores \subseteq (bind.n_state - SlotsNeeded) .. (bind.n_state - 1)
         /\ \A x \in 0 .. bind.n_state - 1 :
               bind.res.state[x] \notin {MP_OBJ_NULL, mp_obj_new_cell(MP_OBJ_NULL)} => x \in stores
         /\ r.pos \subseteq 0 .. BD - 1
         /\ r.kwdict \subseteq (IF BF.has_def_kw_args THEN {BD} ELSE {})
         /\ w.pos \cup w.kw \cup w.defs \cup w.kwonly
               \subseteq {bind.n_state - 1 - i : i \in 0 .. BP + BK - 1}
         /\ \A i \in 0 .. BP + BK - 1 :
               (bind.res.err = NoErr /\ Supplied(i)) =>
                  /\ bind.n_state - 1 - i \in w.pos \cup w.kw
                  /\ Bound(i) = SuppliedValue(i)
         /\ w.tuple \subseteq {bind.n_state - 1 - BP - BK}
         /\ \A t \in w.tuple : \A d \in w.dict : t = d + 1
         /\ \A v \in w.tuple \cup w.dict : \A i \in 0 .. BP + BK - 1 : v < bind.n_state - 1 - i
         /\ bind.res.err = NoErr =>
               /\ BF.takes_var_args =>
                    (w.tuple # {} /\ \A t \in w.tuple : Bound(bind.n_state - 1 - t).t = "tuple")
               /\ BF.takes_kw_args =>
                    (w.dict # {} /\ \A d \in w.dict : Bound(bind.n_state - 1 - d).t = "dict")

\* a call with keywords on a function with a keyword-only parameter and both
\* variadics: the dict goes to the lowest slot the arguments need, the tuple
\* directly above it, parameter 0 is given by keyword, a positional default
\* and the keyword-defaults dict are read
C28_Witness ==
    /\ bind.done /\ bind.res.err = NoErr /\ bind.n_kw > 0
    /\ BF.takes_var_args /\ BF.takes_kw_args /\ BK = 1 /\ BP = 2
    /\ LET m == BMem
           w == m.w
           r == m.r
       IN /\ w.dict = {bind.n_state - SlotsNeeded}
          /\ w.tuple = {bind.n_state - SlotsNeeded + 1}
          /\ w.kwonly = {bind.n_state - SlotsNeeded + 2}
          /\ r.pos = {BD - 1} /\ r.kwdict = {BD}
          /\ w.kw = {bind.n_state - 1} /\ w.defs = {bind.n_state - 2}

\* ------------------------------------------------------------------------
\* fun_bc_call: the call machine

\* sizeof(mp_uint_t) = sizeof(mp_obj_t), one machine word, in bytes
BytesPerWord == 4

\* sizeof(mp_exc_stack_t) in machine words: handler, val_sp, prev_exc, opcode
ExcStackWords == 4

VM_MAX_STATE_ON_STACK == 10 * BytesPerWord

\* line 385: state_size in bytes
StateSize(n_state, n_exc_stack) ==
    n_state * BytesPerWord + n_exc_stack * (ExcStackWords * BytesPerWord)

\* a variant that sends a code state of exactly the limit to the heap as well
OnHeap_AtLimit(state_size) == state_size >= VM_MAX_STATE_ON_STACK

\* lines 387 and 450: the code state comes from, and goes back to, the heap
OnHeap(state_size) == state_size > VM_MAX_STATE_ON_STACK

\* the n_exc_stack that puts the code state of a function on the heap
HeapExcStack == 3

\* the n_exc_stack that, with two state slots, makes state_size exactly
\* VM_MAX_STATE_ON_STACK
EdgeExcStack == 2

\* the function shapes of the call machine
CallShapes == Shapes(MaxCallPos, 0, {0}, {0, EdgeExcStack, HeapExcStack}, FALSE, FALSE)

\* what the bytecode engine hands back: a value in *sp, an exception in
\* state[n_state - 1]
RetVals == {Obj(1)}
EngineExc == [kind |-> "Exception", a |-> 0, b |-> 0]

\* a variant that reads the namespace to restore after setting the new one
fun_bc_call_entry_SaveAfterSet(self, globals, n_args, n_kw, args) ==
    LET n_state == self.bytecode.n_state
        state_size == StateSize(n_state, self.bytecode.n_exc_stack)
        res == mp_setup_code_state(self, n_state, self.bytecode.closed, n_args, n_kw, args)
    IN [state_size |-> state_size,
        code_state |-> [n_state |-> n_state, state |-> res.state],
        exc |-> res.err,
        executes |-> (res.err = NoErr),
        old_globals |-> IF res.err = NoErr THEN self.globals ELSE globals,
        mp_globals |-> IF res.err = NoErr THEN self.globals ELSE globals]

\* a variant that switches to the function's globals before binding
fun_bc_call_entry_GlobalsFirst(self, globals, n_args, n_kw, args) ==
    LET n_state == self.bytecode.n_state
        state_size == StateSize(n_state, self.bytecode.n_exc_stack)
        res == mp_setup_code_state(self, n_state, self.bytecode.closed, n_args, n_kw, args)
    IN [state_size |-> state_size,
        code_state |-> [n_state |-> n_state, state |-> res.state],
        exc |-> res.err,
        executes |-> (res.err = NoErr),
        old_globals |-> globals,
        mp_globals |-> self.globals]

\* lines 369-400: fun_bc_call up to the point where the engine takes over.
\* The frame is sized and allocated and the arguments are bound; a binding
\* failure leaves by nlr_raise from inside mp_setup_code_state, otherwise the
\* active namespace is saved and replaced and mp_execute_bytecode invoked.
fun_bc_call_entry(self, globals, n_args, n_kw, args) ==
    LET n_state == self.bytecode.n_state
        state_size == StateSize(n_state, self.bytecode.n_exc_stack)
        res == mp_setup_code_state(self, n_state, self.bytecode.closed, n_args, n_kw, args)
    IN [state_size |-> state_size,
        code_state |-> [n_state |-> n_state, state |-> res.state],
        exc |-> res.err,
        executes |-> (res.err = NoErr),
        old_globals |-> globals,
        mp_globals |-> IF res.err = NoErr THEN self.globals ELSE globals]

\* fun_bc_call(funs[fi], n_args, 0, args), made by the top level or by the
\* body that is executing
CallBc(fi, n_args) ==
    LET self == funs[fi]
        e == fun_bc_call_entry(self, mp_globals, n_args, 0, PosArgs(n_args))
    IN /\ ~aborted
       /\ Len(stack) < MaxDepth
       /\ OnHeap(e.state_size) => heap < MaxHeap
       /\ heap' = IF OnHeap(e.state_size) THEN heap + 1 ELSE heap
       /\ mp_globals' = e.mp_globals
       /\ IF e.executes
          THEN /\ stack' = Append(stack, [fi |-> fi, n_args |-> n_args,
                                          entered |-> mp_globals,
                                          old_globals |-> e.old_globals,
                                          state_size |-> e.state_size,
                                          code_state |-> e.code_state,
                                          exc |-> e.exc])
               /\ last' = last
          ELSE /\ stack' = stack
               /\ last' = Raised(e.exc)
       /\ UNCHANGED <<funs, bind, aborted, ncall, pin, gpio, pcall, rng>>

Call == \E fi \in DOMAIN funs, n_args \in 0 .. MaxCallPos : CallBc(fi, n_args)

\* a variant that frees a heap code state before the result is read out of it
fun_bc_call_exit_FreeFirst(state_size, vm_return_kind, sp_val, exc_val) ==
    [frees |-> OnHeap(state_size),
     outcome |-> IF OnHeap(state_size) THEN Returned(MP_OBJ_NULL)
                 ELSE IF vm_return_kind = "MP_VM_RETURN_NORMAL"
                 THEN Returned(sp_val) ELSE Raised(exc_val)]

\* lines 429-458: the result is read from *sp or from state[n_state - 1],
\* a heap code state is freed, and the result is returned or raised
fun_bc_call_exit(state_size, vm_return_kind, sp_val, exc_val) ==
    [frees |-> OnHeap(state_size),
     outcome |-> IF vm_return_kind = "MP_VM_RETURN_NORMAL"
                 THEN Returned(sp_val) ELSE Raised(exc_val)]

\* lines 401-458: the engine has returned vm_return_kind for the innermost
\* invocation, leaving sp_val in *sp or exc_val in state[n_state - 1]
FinishBc(vm_return_kind, sp_val, exc_val) ==
    LET top == stack[Len(stack)]
        x == fun_bc_call_exit(top.state_size, vm_return_kind, sp_val, exc_val)
    IN /\ ~aborted
       /\ stack # <<>>
       /\ mp_globals' = top.old_globals
       /\ heap' = IF x.frees THEN heap - 1 ELSE heap
       /\ stack' = SubSeq(stack, 1, Len(stack) - 1)
       /\ last' = x.outcome
       /\ UNCHANGED <<funs, bind, aborted, ncall, pin, gpio, pcall, rng>>

ExecReturn == \E v \in RetVals : FinishBc("MP_VM_RETURN_NORMAL", v, MP_OBJ_NULL)

ExecRaise == FinishBc("MP_VM_RETURN_EXCEPTION", MP_OBJ_NULL, EngineExc)

\* lines 441-446: the engine yields although bytecode should not; with
\* assertions compiled in the program stops at assert(0), after the
\* namespace has been restored
ExecYieldAbort ==
    /\ ~aborted
    /\ stack # <<>>
    /\ mp_globals' = stack[Len(stack)].old_globals
    /\ aborted' = TRUE
    /\ UNCHANGED <<funs, bind, stack, heap, last, ncall, pin, gpio, pcall, rng>>

\* lines 441-446 without assertions: the call returns None
ExecYieldNone == FinishBc("MP_VM_RETURN_NORMAL", mp_const_none, MP_OBJ_NULL)

\* MAKE_FUNCTION at the top level or in the executing body
MakeFunction ==
    /\ ~aborted
    /\ NewFunBc(MaxFuns, CallShapes)
    /\ UNCHANGED <<mp_globals, bind, stack, heap, last, aborted, ncall, pin, gpio, pcall, rng>>

\* the top level moves to another module's namespace
SwitchNamespace ==
    /\ ~aborted
    /\ stack = <<>>
    /\ \E g \in Namespaces \ {mp_globals} : mp_globals' = g
    /\ UNCHANGED <<funs, bind, stack, heap, last, aborted, ncall, pin, gpio, pcall, rng>>

Next ==
    \/ MakeFunction
    \/ SwitchNamespace
    \/ Call
    \/ ExecReturn
    \/ ExecRaise
    \/ ExecYieldAbort
    \/ ExecYieldNone

Spec == Init /\ [][Next]_vars

\* ------------------------------------------------------------------------
\* Properties of fun_bc_call (checked under Spec)

\* the step is the call funs[fi](n_args positional arguments) and its
\* arguments fail to bind
FailedCall(fi, n_args) ==
    /\ CallBc(fi, n_args)
    /\ mp_setup_code_state(funs[fi], funs[fi].bytecode.n_state, funs[fi].bytecode.closed,
                           n_args, 0, PosArgs(n_args)).err # NoErr

\* C10: a call whose arguments fail to bind never reaches the engine (no
\* invocation starts executing), never switches the active namespace, and
\* gives its caller the binder's exception, not a value.
C10_BindingFailureAborts ==
    /\ [](\A k \in DOMAIN stack : stack[k].exc = NoErr)
    /\ [][\A fi \in DOMAIN funs, n_args \in 0 .. MaxCallPos :
            FailedCall(fi, n_args) =>
               /\ stack' = stack
               /\ mp_globals' = mp_globals
               /\ last'.kind = "raise"
               /\ last'.exc.kind \in ErrKinds
               /\ last'.exc = mp_setup_code_state(funs[fi], funs[fi].bytecode.n_state,
                                 funs[fi].bytecode.closed, n_args, 0, PosArgs(n_args)).err]_vars

\* a call of a function of another namespace has failed for want of an argument
C10_Witness ==
    /\ last = Raised(fun_pos_args_mismatch(1, 0))
    /\ \E fi \in DOMAIN funs :
          /\ funs[fi].globals # mp_globals
          /\ funs[fi].n_pos_args = 1 /\ funs[fi].n_def_args = 0

\* the innermost invocation whose body is executing
Top == stack[Len(stack)]

\* the step ends the innermost invocation: its fun_bc_call returns or raises
Finishes == stack # <<>> /\ stack' = SubSeq(stack, 1, Len(stack) - 1)

\* C11: whenever an invocation finishes (value returned, exception returned
\* by the engine, binding failure) the active namespace is again the one
\* that was active when it was entered, at any depth of nesting; and while a
\* body executes the active namespace is the globals its function captured.
C11_GlobalsPushPop ==
    /\ []((~aborted /\ stack # <<>>) => mp_globals = funs[Top.fi].globals)
    /\ [][/\ Finishes => mp_globals' = Top.entered
          /\ \A fi \in DOMAIN funs, n_args \in 0 .. MaxCallPos :
                FailedCall(fi, n_args) => mp_globals' = mp_globals]_vars

\* a nested invocation has finished with an exception and its caller, which
\* was entered from another namespace, executes again under its own globals
C11_Witness ==
    /\ ~aborted /\ Len(stack) = 1
    /\ last = Raised(EngineExc)
    /\ Top.entered # funs[Top.fi].globals
    /\ mp_globals = funs[Top.fi].globals

\* the invocations in progress whose code state came from the heap
HeapFrames == {k \in DOMAIN stack : OnHeap(stack[k].state_size)}

\* C12: every code state taken from the heap is given back when its
\* invocation finishes, on every exit path, a binding failure included: the
\* code states not yet freed are exactly those of the invocations still in
\* progress.
C12_AsStated == ~aborted => heap = Cardinality(HeapFrames)

\* the same function with another exception stack size: its code state is
\* on the other side of VM_MAX_STATE_ON_STACK, everything else is equal
OtherPath(f) ==
    [f EXCEPT !.bytecode.n_exc_stack =
        IF OnHeap(StateSize(f.bytecode.n_state, @)) THEN 0 ELSE HeapExcStack]

\* what the engine can hand back for an invocation
EngineResults ==
    {<<"MP_VM_RETURN_NORMAL", v, MP_OBJ_NULL>> : v \in RetVals \cup {mp_const_none}}
    \cup {<<"MP_VM_RETURN_EXCEPTION", MP_OBJ_NULL, EngineExc>>}

\* C13: a function whose code state is on the stack and its twin whose code
\* state is on the heap behave alike: at every call step both bind the same
\* frame or fail with the same binding failure, and at every finishing step
\* the caller gets the same value or the same exception from both, whatever
\* the engine handed back.
C13_FramePathTransparent ==
    [][/\ \A fi \in DOMAIN funs, n_args \in 0 .. MaxCallPos :
            CallBc(fi, n_args) =>
              LET e == fun_bc_call_entry(funs[fi], mp_globals, n_args, 0, PosArgs(n_args))
                  t == fun_bc_call_entry(OtherPath(funs[fi]), mp_globals, n_args, 0,
                                         PosArgs(n_args))
              IN /\ OnHeap(e.state_size) # OnHeap(t.state_size)
                 /\ e.exc = t.exc /\ e.executes = t.executes
                 /\ e.code_state = t.code_state /\ e.mp_globals = t.mp_globals
                 /\ ~e.executes => last' = Raised(t.exc)
       /\ \A r \in EngineResults :
            FinishBc(r[1], r[2], r[3]) =>
              LET self == funs[Top.fi]
                  twin == OtherPath(self)
                  t == fun_bc_call_exit(StateSize(twin.bytecode.n_state,
                                                  twin.bytecode.n_exc_stack),
                                        r[1], r[2], r[3])
              IN /\ t.frees # OnHeap(Top.state_size)
                 /\ last' = t.outcome]_vars

\* an invocation with its code state on the heap has returned a value
C13_Witness ==
    /\ stack = <<>> /\ Len(funs) = 1
    /\ OnHeap(StateSize(funs[1].bytecode.n_state, funs[1].bytecode.n_exc_stack))
    /\ last = Returned(Obj(1))

\* C15: a function object records the namespace that is active when it is
\* built, keeps it for as long as it lives, and every invocation that
\* reaches the engine executes under that namespace, whichever namespace the
\* caller was in.
C15_CapturedGlobals ==
    [][/\ Len(funs') = Len(funs) + 1 => funs'[Len(funs')].globals = mp_globals
       /\ \A fi \in DOMAIN funs : funs'[fi].globals = funs[fi].globals
       /\ \A fi \in DOMAIN funs, n_args \in 0 .. MaxCallPos :
            (CallBc(fi, n_args) /\ stack' # stack) =>
               /\ mp_globals' = funs[fi].globals
               /\ Len(stack') = Len(stack) + 1]_vars

\* a function built under the second namespace executes under it although
\* it was called from the first
C15_Witness ==
    /\ ~aborted /\ Len(stack) = 1
    /\ funs[Top.fi].globals = 2 /\ Top.entered = 1
    /\ mp_globals = 2

\* the state size in bytes of a function's frame: its value slots and its
\* exception stack entries, of one and of four machine words
FrameBytes(f) == f.bytecode.n_state * BytesPerWord + f.bytecode.n_exc_stack * 4 * BytesPerWord

\* the threshold of 10 machine words, in bytes
TenWords == 10 * BytesPerWord

\* heap allocations and frees of the call and finishing steps, given which
\* sizes go to the heap
FramePlacement(ToHeap(_)) ==
    /\ \A fi \in DOMAIN funs, n_args \in 0 .. MaxCallPos :
         CallBc(fi, n_args) =>
           heap' = IF ToHeap(FrameBytes(funs[fi])) THEN heap + 1 ELSE heap
    /\ \A r \in EngineResults :
         FinishBc(r[1], r[2], r[3]) =>
           heap' = IF ToHeap(FrameBytes(funs[Top.fi])) THEN heap - 1 ELSE heap

\* C22 as stated: the frame is inline exactly when its size is strictly below
\* 10 machine words and on the heap when it is equal or above; the free is
\* done for exactly the heap frames.
C22_AsStated == [][FramePlacement(LAMBDA size : size >= TenWords)]_vars

\* C22: the frame is inline exactly when its size is at most 10 machine
\* words and taken from the heap when it is strictly above; when the engine
\* comes back, by return or by exception, the free is done for exactly the
\* frames above 10 words. The allocation is made before binding, so a call
\* whose binding fails allocates by the same rule.
C22_FrameThreshold == [][FramePlacement(LAMBDA size : size > TenWords)]_vars

\* a frame of exactly 10 machine words is executing and nothing is on the heap
C22_Witness ==
    /\ ~aborted /\ Len(stack) = 1 /\ heap = 0
    /\ FrameBytes(funs[Top.fi]) = TenWords
    /\ Top.state_size = TenWords

\* ------------------------------------------------------------------------
\* Native functions: fun_native_call and fun_binary_op

\* the largest arity of the native, viper and inline-assembler functions of
\* the model, and the most positional arguments a call of one passes
MaxNatArity == 4

\* no upper limit on the number of arguments
MP_OBJ_FUN_ARGS_MAX == 65535

\* mp_obj_fun_native_t: fun is the C function, known by a number
NativeFun(id, is_kw, n_args_min, n_args_max, fun) ==
    [t |-> "fun_native", id |-> id, is_kw |-> is_kw, n_args_min |-> n_args_min,
     n_args_max |-> n_args_max, fun |-> fun]

mp_make_function_n(id, n_args, fun) == NativeFun(id, FALSE, n_args, n_args, fun)

mp_make_function_var(id, n_args_min, fun) ==
    NativeFun(id, FALSE, n_args_min, MP_OBJ_FUN_ARGS_MAX, fun)

mp_make_function_var_between(id, n_args_min, n_args_max, fun) ==
    NativeFun(id, FALSE, n_args_min, n_args_max, fun)

\* a keyword-accepting function object, as the static definitions build it
NativeKwFun(id, n_args_min, fun) ==
    NativeFun(id, TRUE, n_args_min, MP_OBJ_FUN_ARGS_MAX, fun)

\* the exception of a failed argument count check
ArgNumError(expected, given) == [kind |-> "ArityMismatch", a |-> expected, b |-> given]

\* mp_arg_check_num: keywords only when is_kw; n_args exactly n_args_min
\* when min = max, otherwise between the two
mp_arg_check_num(n_args, n_kw, n_args_min, n_args_max, is_kw) ==
    IF n_kw > 0 /\ ~is_kw THEN ArgNumError(n_args_min, n_args)
    ELSE IF n_args_min = n_args_max
    THEN (IF n_args # n_args_min THEN ArgNumError(n_args_min, n_args) ELSE NoErr)
    ELSE IF n_args < n_args_min THEN ArgNumError(n_args_min, n_args)
    ELSE IF n_args > n_args_max THEN ArgNumError(n_args_max, n_args)
    ELSE NoErr

\* a pointer into the caller's argument array: args + off
ArgsPtr(off) == [arr |-> "args", off |-> off]

\* mp_map_init_fixed_table: a map that uses the n pairs at table as its
\* storage
mp_map_init_fixed_table(n, table) ==
    [alloc |-> n, used |-> n, table_is_fixed_array |-> TRUE, table |-> table]

\* one invocation of the C function behind a function object: the form of
\* the C signature it is called through and what it is passed
Invoke(form, fun, n, argv, args, kw) ==
    [form |-> form, fun |-> fun, n |-> n, argv |-> argv, args |-> args, kw |-> kw]

NoPtr == [arr |-> "", off |-> 0]
NoMap == [alloc |-> 0, used |-> 0, table_is_fixed_array |-> FALSE, table |-> NoPtr]

\* what the C function returns
NatRet == Obj(99)

\* a variant that builds the keyword map at the start of the argument array
fun_native_call_MapAtStart(self, n_args, n_kw, args) ==
    LET err == mp_arg_check_num(n_args, n_kw, self.n_args_min, self.n_args_max, self.is_kw)
        done(inv) == [err |-> NoErr, inv |-> <<inv>>, fatal |-> FALSE, ret |-> NatRet]
    IN IF err # NoErr
       THEN [err |-> err, inv |-> <<>>, fatal |-> FALSE, ret |-> MP_OBJ_NULL]
       ELSE IF self.is_kw
       THEN done(Invoke("mp_fun_kw_t", self.fun, n_args, <<>>, ArgsPtr(0),
                        mp_map_init_fixed_table(n_kw, ArgsPtr(0))))
       ELSE IF self.n_args_min <= 3 /\ self.n_args_min = self.n_args_max
       THEN done(Invoke("mp_fun_fixed_t", self.fun, self.n_args_min,
                        [i \in 1 .. self.n_args_min |-> args[i]], NoPtr, NoMap))
       ELSE done(Invoke("mp_fun_var_t", self.fun, n_args, <<>>, ArgsPtr(0), NoMap))

\* fun_native_call: [err, inv, fatal, ret], the exception raised, the
\* invocations made of the C function, whether assert(0) was reached, and
\* the value returned.  args[i] of the C array is args[i + 1] here.
fun_native_call(self, n_args, n_kw, args) ==
    LET err == mp_arg_check_num(n_args, n_kw, self.n_args_min, self.n_args_max, self.is_kw)
        done(inv) == [err |-> NoErr, inv |-> <<inv>>, fatal |-> FALSE, ret |-> NatRet]
    IN IF err # NoErr
       THEN [err |-> err, inv |-> <<>>, fatal |-> FALSE, ret |-> MP_OBJ_NULL]
       ELSE IF self.is_kw
       THEN done(Invoke("mp_fun_kw_t", self.fun, n_args, <<>>, ArgsPtr(0),
                        mp_map_init_fixed_table(n_kw, ArgsPtr(n_args))))
       ELSE IF self.n_args_min <= 3 /\ self.n_args_min = self.n_args_max
       THEN done(Invoke("mp_fun_fixed_t", self.fun, self.n_args_min,
                        [i \in 1 .. self.n_args_min |-> args[i]], NoPtr, NoMap))
       ELSE done(Invoke("mp_fun_var_t", self.fun, n_args, <<>>, ArgsPtr(0), NoMap))

\* the native function objects of the model; objects 1 and 2 are two
\* objects of equal content
NativeFuns ==
    {mp_make_function_n(1, 1, 1), mp_make_function_n(2, 1, 1)}
    \cup {mp_make_function_n(3, n, 2) : n \in 0 .. MaxNatArity}
    \cup {mp_make_function_var(4, n, 3) : n \in 0 .. 1}
    \cup {mp_make_function_var_between(5, lo, hi, 3) : lo \in 1 .. 2, hi \in 2 .. 3}
    \cup {NativeKwFun(6, n, 4) : n \in 0 .. 1}

\* the keyword names of a native call
NatKwNames == {1, 2}

\* a call of a native function object
NativeCall ==
    /\ ncall.op = "none"
    /\ \E self \in NativeFuns, n_args \in 0 .. MaxNatArity, n_kw \in 0 .. MaxKw :
        \E kwargs \in KwArrays(n_kw, NatKwNames) :
          LET args == PosArgs(n_args) \o kwargs
          IN ncall' = [op |-> "native", self |-> self, bop |-> "", n_args |-> n_args,
                       n_kw |-> n_kw, args |-> args, build |-> "", float_on |-> FALSE, word |-> IntWord(0),
                       res |-> fun_native_call(self, n_args, n_kw, args)]
    /\ UNCHANGED <<funs, mp_globals, bind, stack, heap, last, aborted, pin, gpio, pcall, rng>>

\* the caller has taken the result
DropCall ==
    /\ ncall.op # "none"
    /\ ncall' = NoCall
    /\ UNCHANGED <<funs, mp_globals, bind, stack, heap, last, aborted, pin, gpio, pcall, rng>>

\* ------------------------------------------------------------------------
\* Values and machine words of the native calling conventions

\* mp_int_t is the machine word of a 32-bit target; a small int holds 31 bits
IntMax == 2147483647
IntMin == -IntMax - 1
SmallMax == 1073741823
SmallMin == -SmallMax - 1

\* the value left of the word n when it is shifted into a small int and back:
\* the top bit of the word is lost
SmallIntWrap(n) ==
    IF n > SmallMax THEN (n - SmallMax - 1) - SmallMax - 1
    ELSE IF n < SmallMin THEN (n + SmallMax + 1) + SmallMax + 1
    ELSE n

\* a small integer: an object identified by its value
MP_OBJ_NEW_SMALL_INT(n) == [t |-> "int", id |-> SmallIntWrap(n), items |-> <<>>, map |-> <<>>]
MP_OBJ_IS_SMALL_INT(o) == o.t = "int"
MP_OBJ_SMALL_INT_VALUE(o) == o.id

mp_const_false == [t |-> "bool", id |-> 0, items |-> <<>>, map |-> <<>>]
mp_const_true == [t |-> "bool", id |-> 1, items |-> <<>>, map |-> <<>>]
MP_BOOL(x) == IF x THEN mp_const_true ELSE mp_const_false

TypeError == [kind |-> "TypeError", a |-> 0, b |-> 0]

\* mp_obj_get_int: [err, v]
mp_obj_get_int(o) ==
    IF MP_OBJ_IS_SMALL_INT(o) THEN [err |-> NoErr, v |-> MP_OBJ_SMALL_INT_VALUE(o)]
    ELSE IF o = mp_const_true THEN [err |-> NoErr, v |-> 1]
    ELSE IF o = mp_const_false THEN [err |-> NoErr, v |-> 0]
    ELSE [err |-> TypeError, v |-> 0]

\* ------------------------------------------------------------------------
\* Viper functions: fun_viper_call

MP_NATIVE_TYPE_OBJ == 0
MP_NATIVE_TYPE_BOOL == 1
MP_NATIVE_TYPE_INT == 2
MP_NATIVE_TYPE_UINT == 3

\* mp_convert_obj_to_native: the low two bits of type choose the
\* conversion; [err, word]
mp_convert_obj_to_native(obj, type) ==
    IF type % 4 = MP_NATIVE_TYPE_OBJ
    THEN [err |-> NoErr, word |-> PtrWord("obj", obj)]
    ELSE LET r == mp_obj_get_int(obj)
         IN [err |-> r.err, word |-> IntWord(r.v)]

\* an int object made from a word: a small int when the value fits one, an
\* int object of the full value otherwise
mp_obj_new_int(v) ==
    IF SmallMin <= v /\ v <= SmallMax THEN MP_OBJ_NEW_SMALL_INT(v)
    ELSE [t |-> "int", id |-> v, items |-> <<>>, map |-> <<"mpz">>]

\* an int object made from an unsigned word: a word with the top bit set is
\* a number beyond the signed range
mp_obj_new_int_from_uint(v) ==
    IF v >= 0 THEN mp_obj_new_int(v)
    ELSE [t |-> "int", id |-> v, items |-> <<>>, map |-> <<"+2^wordsize">>]

\* mp_convert_native_to_obj: the low two bits of type choose the conversion
mp_convert_native_to_obj(val, type) ==
    IF type % 4 = MP_NATIVE_TYPE_OBJ
    THEN (IF val.k = "ptr" /\ val.to = "obj" THEN val.of
          ELSE [t |-> "wild", id |-> val.v, items |-> <<>>, map |-> <<>>])
    ELSE IF type % 4 = MP_NATIVE_TYPE_BOOL THEN MP_BOOL(val # IntWord(0))
    ELSE IF type % 4 = MP_NATIVE_TYPE_INT THEN mp_obj_new_int(val.v)
    ELSE mp_obj_new_int_from_uint(val.v)

\* type_sig >> n
ShiftRight(x, n) == x \div (2 ^ n)

mp_obj_new_fun_viper(id, n_args, fun, type_sig) ==
    [t |-> "fun_viper", id |-> id, n_args |-> n_args, fun |-> fun, type_sig |-> type_sig]

\* the first exception among conversion results, NoErr when none
RECURSIVE FirstErr(_, _)
FirstErr(convs, i) ==
    IF i > Len(convs) THEN NoErr
    ELSE IF convs[i].err # NoErr THEN convs[i].err
    ELSE FirstErr(convs, i + 1)

\* fun_viper_call; ret is the word the machine code returns, build says
\* whether assert is compiled in ("assert") or not ("ndebug")
fun_viper_call(self, n_args, n_kw, args, ret, build) ==
    LET err == mp_arg_check_num(n_args, n_kw, self.n_args, self.n_args, FALSE)
        convs == [i \in 1 .. n_args |->
                     mp_convert_obj_to_native(args[i], ShiftRight(self.type_sig, 2 * i))]
        cerr == FirstErr(convs, 1)
    IN IF err # NoErr
       THEN [err |-> err, inv |-> <<>>, fatal |-> FALSE, ret |-> MP_OBJ_NULL]
       ELSE IF n_args <= 3
       THEN IF cerr # NoErr
            THEN [err |-> cerr, inv |-> <<>>, fatal |-> FALSE, ret |-> MP_OBJ_NULL]
            ELSE [err |-> NoErr,
                  inv |-> <<Invoke("viper_fun_t", self.fun, n_args,
                                   [i \in 1 .. n_args |-> convs[i].word], NoPtr, NoMap)>>,
                  fatal |-> FALSE,
                  ret |-> mp_convert_native_to_obj(ret, self.type_sig)]
       ELSE IF build = "assert"
       THEN [err |-> NoErr, inv |-> <<>>, fatal |-> TRUE, ret |-> MP_OBJ_NULL]
       ELSE [err |-> NoErr, inv |-> <<>>, fatal |-> FALSE,
             ret |-> mp_convert_native_to_obj(IntWord(0), self.type_sig)]

\* the type signatures tried for a viper function of n arguments: every
\* signature of n + 1 slots for n up to 1, a few with all slots different
\* beyond
ViperSigs(n) ==
    IF n <= 1 THEN 0 .. (4 ^ (n + 1)) - 1
    ELSE {0, 27, 57, 78, 228}

ViperFuns ==
    UNION {{mp_obj_new_fun_viper(7, n, 5, sig) : sig \in ViperSigs(n)} :
              n \in 0 .. MaxNatArity}

\* the objects passed to viper and inline-assembler functions
NatVals == {MP_OBJ_NEW_SMALL_INT(2), mp_const_true, Obj(1)}

\* the argument arrays of n such objects
NatArgs(n) == [1 .. n -> NatVals]

\* the words a viper function returns
ViperRetWords == {IntWord(0), IntWord(-1), PtrWord("obj", Obj(99))}

Builds == {"assert", "ndebug"}

\* a call of a viper function object, with positional arguments only or
\* with one keyword pair
ViperCall ==
    /\ ncall.op = "none"
    /\ \E self \in ViperFuns, n_args \in 0 .. MaxNatArity, n_kw \in 0 .. 1 :
        \E pos \in NatArgs(n_args), kwargs \in KwArrays(n_kw, {1}),
           ret \in ViperRetWords, build \in Builds :
          LET args == pos \o kwargs
          IN ncall' = [op |-> "viper", self |-> self, bop |-> "", n_args |-> n_args,
                       n_kw |-> n_kw, args |-> args, build |-> build, float_on |-> FALSE, word |-> ret,
                       res |-> fun_viper_call(self, n_args, n_kw, args, ret, build)]
    /\ UNCHANGED <<funs, mp_globals, bind, stack, heap, last, aborted, pin, gpio, pcall, rng>>

\* the 2-bit slot k of an (n + 1)-slot signature counted from the most
\* significant one: slot 0 is the topmost
SlotFromTop(sig, n, k) == (sig \div (4 ^ (n - k))) % 4

\* C17 (as stated): the signature holds the return type in its most
\* significant slot, then arg0, arg1, ...; a viper call converts argument i
\* with the type of its own slot and the returned word with the type of the
\* return slot; a call whose argument count differs from the declared
\* arity, or that passes keywords, is rejected.
C17_AsStated ==
    ncall.op = "viper" =>
      LET self == ncall.self
          n == ncall.n_args
      IN /\ (n # self.n_args \/ ncall.n_kw # 0) =>
               (ncall.res.err.kind = "ArityMismatch" /\ ncall.res.inv = <<>>)
         /\ (n = self.n_args /\ ncall.n_kw = 0 /\ n <= 3 /\ ncall.res.err = NoErr) =>
               /\ Len(ncall.res.inv) = 1
               /\ \A i \in 1 .. n :
                     ncall.res.inv[1].argv[i]
                       = mp_convert_obj_to_native(ncall.args[i],
                                                  SlotFromTop(self.type_sig, n, i)).word
               /\ ncall.res.ret
                     = mp_convert_native_to_obj(ncall.word, SlotFromTop(self.type_sig, n, 0))

\* ------------------------------------------------------------------------
\* Inline assembler functions: fun_asm_call

StrObj(id) == [t |-> "str", id |-> id, items |-> <<>>, map |-> <<>>]
ListObj(id, items) == [t |-> "list", id |-> id, items |-> items, map |-> <<>>]
ByteArrayObj(id) == [t |-> "bytearray", id |-> id, items |-> <<>>, map |-> <<>>]

\* a float, given by twice its value: FloatObj(5) is 2.5
FloatObj(twice) == [t |-> "float", id |-> twice, items |-> <<>>, map |-> <<>>]

\* (mp_int_t)mp_obj_float_get(obj): the value truncated towards zero
FloatToInt(o) == IF o.id >= 0 THEN o.id \div 2 ELSE -((-o.id) \div 2)

MP_OBJ_IS_STR(o) == o.t = "str"

\* mp_get_buffer(obj, &bufinfo, MP_BUFFER_WRITE): the object gives access to
\* its memory for writing
mp_get_buffer(o) == o.t = "bytearray"

\* a variant without the branch for strings
convert_obj_for_inline_asm_NoStr(obj, float_on) ==
    IF MP_OBJ_IS_SMALL_INT(obj) THEN IntWord(MP_OBJ_SMALL_INT_VALUE(obj))
    ELSE IF obj = mp_const_none THEN IntWord(0)
    ELSE IF obj = mp_const_false THEN IntWord(0)
    ELSE IF obj = mp_const_true THEN IntWord(1)
    ELSE IF float_on /\ obj.t = "float" THEN IntWord(FloatToInt(obj))
    ELSE IF obj.t = "tuple" THEN PtrWord("items", obj)
    ELSE IF obj.t = "list" THEN PtrWord("items", obj)
    ELSE IF mp_get_buffer(obj) THEN PtrWord("buf", obj)
    ELSE PtrWord("obj", obj)

\* convert_obj_for_inline_asm; float_on says whether the build has
\* MICROPY_PY_BUILTINS_FLOAT
convert_obj_for_inline_asm(obj, float_on) ==
    IF MP_OBJ_IS_SMALL_INT(obj) THEN IntWord(MP_OBJ_SMALL_INT_VALUE(obj))
    ELSE IF obj = mp_const_none THEN IntWord(0)
    ELSE IF obj = mp_const_false THEN IntWord(0)
    ELSE IF obj = mp_const_true THEN IntWord(1)
    ELSE IF MP_OBJ_IS_STR(obj) THEN PtrWord("str_data", obj)
    ELSE IF float_on /\ obj.t = "float" THEN IntWord(FloatToInt(obj))
    ELSE IF obj.t = "tuple" THEN PtrWord("items", obj)
    ELSE IF obj.t = "list" THEN PtrWord("items", obj)
    ELSE IF mp_get_buffer(obj) THEN PtrWord("buf", obj)
    ELSE PtrWord("obj", obj)

convert_val_from_inline_asm(val) == MP_OBJ_NEW_SMALL_INT(val.v)

mp_obj_new_fun_asm(id, n_args, fun) ==
    [t |-> "fun_asm", id |-> id, n_args |-> n_args, fun |-> fun]

\* fun_asm_call; ret is the word the routine returns
fun_asm_call(self, n_args, n_kw, args, ret, build, float_on) ==
    LET err == mp_arg_check_num(n_args, n_kw, self.n_args, self.n_args, FALSE)
    IN IF err # NoErr
       THEN [err |-> err, inv |-> <<>>, fatal |-> FALSE, ret |-> MP_OBJ_NULL]
       ELSE IF n_args <= 3
       THEN [err |-> NoErr,
             inv |-> <<Invoke("inline_asm_fun_t", self.fun, n_args,
                              [i \in 1 .. n_args |->
                                  convert_obj_for_inline_asm(args[i], float_on)],
                              NoPtr, NoMap)>>,
             fatal |-> FALSE,
             ret |-> convert_val_from_inline_asm(ret)]
       ELSE IF build = "assert"
       THEN [err |-> NoErr, inv |-> <<>>, fatal |-> TRUE, ret |-> MP_OBJ_NULL]
       ELSE [err |-> NoErr, inv |-> <<>>, fatal |-> FALSE,
             ret |-> convert_val_from_inline_asm(IntWord(0))]

AsmFuns == {mp_obj_new_fun_asm(8, n, 6) : n \in 0 .. MaxNatArity}

\* the objects passed to an inline-assembler function; floats exist only in
\* a build with float support
AsmVals(float_on) ==
    {MP_OBJ_NEW_SMALL_INT(2), mp_const_none, mp_const_false, mp_const_true,
     StrObj(30), mp_obj_new_tuple(1, <<Obj(1)>>), ListObj(31, <<Obj(1)>>),
     ByteArrayObj(32), Obj(1)}
    \cup (IF float_on THEN {FloatObj(5), FloatObj(-5)} ELSE {})

\* argument arrays: any objects in the first two places, small integers after
AsmArgs(n, float_on) ==
    {[i \in 1 .. n |-> IF i <= 2 THEN a[i] ELSE MP_OBJ_NEW_SMALL_INT(i)] :
        a \in [1 .. 2 -> AsmVals(float_on)]}

AsmRetWords == {IntWord(0), IntWord(5), IntWord(-1)}

\* a call of an inline-assembler function object
AsmCall ==
    /\ ncall.op = "none"
    /\ \E self \in AsmFuns, n_args \in 0 .. MaxNatArity, n_kw \in 0 .. 1,
          float_on \in BOOLEAN :
        \E pos \in AsmArgs(n_args, float_on), kwargs \in KwArrays(n_kw, {1}),
           ret \in AsmRetWords, build \in Builds :
          LET args == pos \o kwargs
          IN ncall' = [op |-> "asm", self |-> self, bop |-> "", n_args |-> n_args,
                       n_kw |-> n_kw, args |-> args, build |-> build,
                       float_on |-> float_on, word |-> ret,
                       res |-> fun_asm_call(self, n_args, n_kw, args, ret, build, float_on)]
    /\ UNCHANGED <<funs, mp_globals, bind, stack, heap, last, aborted, pin, gpio, pcall, rng>>

\* ------------------------------------------------------------------------
\* fun_binary_op, the binary_op slot of all four function types

\* some of the operators of mp_binary_op_t
BinaryOps == {"MP_BINARY_OP_EQUAL", "MP_BINARY_OP_NOT_EQUAL", "MP_BINARY_OP_IS",
              "MP_BINARY_OP_LESS", "MP_BINARY_OP_ADD", "MP_BINARY_OP_IN"}

\* a variant that compares what the two objects hold
fun_binary_op_ByContent(op, lhs_in, rhs_in) ==
    IF op = "MP_BINARY_OP_EQUAL"
    THEN MP_BOOL([lhs_in EXCEPT !.id = 0] = [rhs_in EXCEPT !.id = 0])
    ELSE MP_OBJ_NULL

\* fun_binary_op: lhs_in == rhs_in compares the two pointers; an object is
\* known by its id, so the records are equal exactly when the pointers are
fun_binary_op(op, lhs_in, rhs_in) ==
    IF op = "MP_BINARY_OP_EQUAL"
    THEN MP_BOOL(lhs_in = rhs_in)
    ELSE MP_OBJ_NULL

\* the objects that exist together when a binary operation is made: six
\* functions, the first two of equal content, and an object that is no
\* function; no two of them have the same id
Operands ==
    {mp_make_function_n(1, 1, 1), mp_make_function_n(2, 1, 1),
     mp_make_function_var(4, 0, 3), NativeKwFun(6, 0, 4),
     mp_obj_new_fun_viper(7, 1, 5, 0), mp_obj_new_fun_asm(8, 1, 6), Obj(50)}

FunOperands == Operands \ {Obj(50)}

\* a binary operation with a function on the left
BinaryOp ==
    /\ ncall.op = "none"
    /\ \E op \in BinaryOps, lhs_in \in FunOperands, rhs_in \in Operands :
          ncall' = [op |-> "binary_op", self |-> lhs_in, bop |-> op, n_args |-> 0,
                    n_kw |-> 0, args |-> <<rhs_in>>, build |-> "", float_on |-> FALSE,
                    word |-> IntWord(0),
                    res |-> [err |-> NoErr, inv |-> <<>>, fatal |-> FALSE,
                             ret |-> fun_binary_op(op, lhs_in, rhs_in)]]
    /\ UNCHANGED <<funs, mp_globals, bind, stack, heap, last, aborted, pin, gpio, pcall, rng>>

\* calls of native, viper and inline-assembler functions and binary
\* operations on functions, one at a time
NextNative == NativeCall \/ ViperCall \/ AsmCall \/ BinaryOp \/ DropCall

SpecNative == Init /\ [][NextNative]_vars

\* ------------------------------------------------------------------------
\* Properties of the native calling conventions (checked under SpecNative)

\* the finished call passed the argument count check of its function
PassedArityCheck == ncall.res.err.kind # "ArityMismatch"

\* C16: a native call that passes the arity check invokes the C function
\* exactly once, in the form its descriptor alone selects: a keyword
\* function gets n_args, the argument array and a fixed map whose table is
\* the n_kw pairs that follow the positional arguments in that same array;
\* otherwise a function of fixed arity min = max <= 3 gets exactly
\* args[0..min-1] as individual arguments in order; otherwise the function
\* gets n_args and the argument array.  A failed check invokes nothing.
C16_NativeForms ==
    ncall.op = "native" =>
      LET self == ncall.self
          inv == ncall.res.inv
      IN IF ~PassedArityCheck THEN inv = <<>>
         ELSE /\ Len(inv) = 1 /\ inv[1].fun = self.fun /\ ncall.res.err = NoErr
              /\ IF self.is_kw
                 THEN /\ inv[1].form = "mp_fun_kw_t"
                      /\ inv[1].n = ncall.n_args /\ inv[1].args = ArgsPtr(0)
                      /\ inv[1].kw.table = ArgsPtr(ncall.n_args)
                      /\ inv[1].kw.used = ncall.n_kw /\ inv[1].kw.alloc = ncall.n_kw
                      /\ inv[1].kw.table_is_fixed_array
                 ELSE IF self.n_args_min = self.n_args_max /\ self.n_args_min <= 3
                 THEN /\ inv[1].form = "mp_fun_fixed_t"
                      /\ Len(inv[1].argv) = self.n_args_min
                      /\ \A i \in 1 .. self.n_args_min : inv[1].argv[i] = ncall.args[i]
                 ELSE /\ inv[1].form = "mp_fun_var_t"
                      /\ inv[1].n = ncall.n_args /\ inv[1].args = ArgsPtr(0)
                      /\ ncall.n_kw = 0

\* a keyword function called with one positional argument and two keyword
\* pairs has been given the map over the two pairs
C16_Witness ==
    /\ ncall.op = "native" /\ ncall.self.is_kw
    /\ ncall.n_args = 1 /\ ncall.n_kw = 2 /\ ncall.res.err = NoErr
    /\ ncall.res.inv[1].kw = mp_map_init_fixed_table(2, ArgsPtr(1))

\* the finished call is an inline-assembler call that reached the routine
AsmInvoked ==
    /\ ncall.op = "asm" /\ ncall.res.err = NoErr /\ ncall.n_args <= 3
    /\ Len(ncall.res.inv) = 1

\* the conversion rules in their order, without and with the rule for floats
AsmRule(obj) ==
    IF MP_OBJ_IS_SMALL_INT(obj) THEN IntWord(MP_OBJ_SMALL_INT_VALUE(obj))
    ELSE IF obj \in {mp_const_none, mp_const_false} THEN IntWord(0)
    ELSE IF obj = mp_const_true THEN IntWord(1)
    ELSE IF obj.t = "str" THEN PtrWord("str_data", obj)
    ELSE IF obj.t \in {"tuple", "list"} THEN PtrWord("items", obj)
    ELSE IF obj.t = "bytearray" THEN PtrWord("buf", obj)
    ELSE PtrWord("obj", obj)

AsmRuleWithFloat(obj) ==
    IF obj.t = "float" THEN IntWord(FloatToInt(obj)) ELSE AsmRule(obj)

\* the value returned is a small integer made of the routine's word
AsmReturnsSmallInt ==
    /\ MP_OBJ_IS_SMALL_INT(ncall.res.ret)
    /\ MP_OBJ_SMALL_INT_VALUE(ncall.res.ret) = ncall.word.v

\* C18 (as stated): every argument of an inline-assembler call is converted
\* by the first matching rule of: small integer -> value; None, False -> 0,
\* True -> 1; string -> pointer to its data; tuple, list -> pointer to the
\* items; other object with a raw buffer -> pointer to the buffer;
\* otherwise -> pointer to the object; the word returned comes back as a
\* small integer.
C18_AsStated ==
    AsmInvoked =>
      /\ \A i \in 1 .. ncall.n_args : ncall.res.inv[1].argv[i] = AsmRule(ncall.args[i])
      /\ AsmReturnsSmallInt

\* C18 (amended): the same, with one rule more in a build with float
\* support: a float is converted to its value truncated to an integer,
\* before the rules for tuple, list and buffer.
C18_AsmConversion ==
    AsmInvoked =>
      /\ \A i \in 1 .. ncall.n_args :
            ncall.res.inv[1].argv[i]
              = IF ncall.float_on THEN AsmRuleWithFloat(ncall.args[i])
                ELSE AsmRule(ncall.args[i])
      /\ AsmReturnsSmallInt

\* a string and the float -2.5 have been passed: a pointer and -2
C18_Witness ==
    /\ AsmInvoked /\ ncall.n_args = 2 /\ ncall.float_on
    /\ ncall.args[1] = StrObj(30) /\ ncall.args[2] = FloatObj(-5)
    /\ ncall.res.inv[1].argv = <<PtrWord("str_data", StrObj(30)), IntWord(-2)>>
    /\ ncall.res.ret = MP_OBJ_NEW_SMALL_INT(5)

\* C19: f == g on function values is TRUE exactly when f and g are the same
\* object, whatever they hold, hence reflexive and symmetric; every other
\* binary operator is reported as unsupported (MP_OBJ_NULL).
C19_EqualityIsIdentity ==
    ncall.op = "binary_op" =>
      LET f == ncall.self
          g == ncall.args[1]
      IN IF ncall.bop = "MP_BINARY_OP_EQUAL"
         THEN /\ ncall.res.ret = MP_BOOL(f.id = g.id)
              /\ fun_binary_op(ncall.bop, f, f) = mp_const_true
              /\ g \in FunOperands => fun_binary_op(ncall.bop, g, f) = ncall.res.ret
         ELSE ncall.res.ret = MP_OBJ_NULL

\* two different function objects of equal content have compared unequal
C19_Witness ==
    /\ ncall.op = "binary_op" /\ ncall.bop = "MP_BINARY_OP_EQUAL"
    /\ ncall.self = mp_make_function_n(1, 1, 1)
    /\ ncall.args[1] = mp_make_function_n(2, 1, 1)
    /\ ncall.res.ret = mp_const_false

\* the finished call is to a function of fixed arity above 3 and gives as
\* many arguments as the function takes
FixedArityAboveThree ==
    \/ /\ ncall.op = "native" /\ ~ncall.self.is_kw
       /\ ncall.self.n_args_min = ncall.self.n_args_max /\ ncall.self.n_args_min > 3
       /\ ncall.n_args = ncall.self.n_args_min /\ ncall.n_kw = 0
    \/ /\ ncall.op \in {"viper", "asm"}
       /\ ncall.self.n_args > 3
       /\ ncall.n_args = ncall.self.n_args /\ ncall.n_kw = 0

\* C24: a call of a native, viper or inline-assembler function of fixed arity
\* above 3 ends in the fatal state: the machine code is not invoked and no
\* value comes back to the caller.
C24_AsStated ==
    FixedArityAboveThree =>
      /\ ncall.res.fatal
      /\ ncall.res.inv = <<>>
      /\ ncall.res.ret = MP_OBJ_NULL

\* ---------------------------------------------------------------------------
\* The Pin class (stmhal/pin.c)

PinObj(id) == [t |-> "pin", id |-> id, items |-> <<>>, map |-> <<>>]

\* MP_OBJ_IS_TYPE(o, &pin_type)
IsPin(o) == o.t = "pin"

\* the pin names of the board: "X1" (StrObj(1)) is a board name only, "A0"
\* (StrObj(2)) a CPU name only, StrObj(3) names one pin of the board and
\* another of the CPU, StrObj(4) names no pin
pin_board_pins_locals_dict == DictOf(<< <<StrObj(1), PinObj(1)>>, <<StrObj(3), PinObj(3)>> >>)
pin_cpu_pins_locals_dict == DictOf(<< <<StrObj(2), PinObj(2)>>, <<StrObj(3), PinObj(4)>> >>)

\* pin_find_named_pin: the pin of that name in the dict, MP_OBJ_NULL when none
pin_find_named_pin(named_pins, name) ==
    LET e == mp_map_lookup(named_pins, name)
    IN IF e = 0 THEN MP_OBJ_NULL ELSE named_pins.map[e][2]

ValueError == [kind |-> "ValueError", a |-> 0, b |-> 0]

\* the class object, args[0] of the class methods
PinClass == [t |-> "type", id |-> 60, items |-> <<>>, map |-> <<>>]

\* pin_mapper: Pin.mapper([fun]) sets the mapper when one is given
pin_mapper(n_args, args, pin_class_mapper) ==
    IF n_args > 1 THEN args[2] ELSE pin_class_mapper

\* pin_map_dict: Pin.dict([dict]) sets the mapping dict when one is given
pin_map_dict(n_args, args, pin_class_map_dict) ==
    IF n_args > 1 THEN args[2] ELSE pin_class_map_dict

\* ---------------------------------------------------------------------------
\* The Pin class: pin.init

GPIO_MODE_INPUT == 0
GPIO_MODE_OUTPUT_PP == 1
GPIO_MODE_OUTPUT_OD == 17
GPIO_MODE_AF_PP == 2
GPIO_MODE_AF_OD == 18
GPIO_MODE_ANALOG == 3

IS_GPIO_MODE(MODE) == MODE \in {GPIO_MODE_INPUT, GPIO_MODE_OUTPUT_PP, GPIO_MODE_OUTPUT_OD, GPIO_MODE_AF_PP, GPIO_MODE_AF_OD, GPIO_MODE_ANALOG}

GPIO_NOPULL == 0
GPIO_PULLUP == 1
GPIO_PULLDOWN == 2

IS_GPIO_PULL(PULL) == PULL \in {GPIO_NOPULL, GPIO_PULLUP, GPIO_PULLDOWN}

GPIO_SPEED_FAST == 2

IS_GPIO_AF(af) == af >= 0 /\ af <= 7

\* the names of the parameters of init, as qstrs
MP_QSTR_mode == 21
MP_QSTR_pull == 22
MP_QSTR_af == 23

\* pin_init_args: mode is required, pull and af have defaults
pin_init_args == <<[qst |-> MP_QSTR_mode, required |-> TRUE, u_int |-> 0], [qst |-> MP_QSTR_pull, required |-> FALSE, u_int |-> GPIO_NOPULL], [qst |-> MP_QSTR_af, required |-> FALSE, u_int |-> -1]>>

PIN_INIT_NUM_ARGS == Len(pin_init_args)

\* the (name, value) pairs of a keyword map laid over the argument array args
MapPairs(kw_args, args) ==
    [k \in 1 .. kw_args.used |-> <<args[kw_args.table.off + 2 * k - 1], args[kw_args.table.off + 2 * k]>>]

\* mp_arg_parse_all for integer parameters: [err, vals]. A parameter is taken
\* from its position, else from the keyword of its name, else from its
\* default; TypeError for too many positional arguments, a missing required
\* parameter, a keyword that is left over (unknown, or naming a parameter
\* given by position) or a value that is no integer.
mp_arg_parse_all(n_pos, pos, kws, n_allowed, allowed) ==
    LET kwOf(i) == {k \in DOMAIN kws : kws[k][1] = MP_OBJ_NEW_QSTR(allowed[i].qst)}
        given(i) == IF i <= n_pos THEN pos[i]
                    ELSE IF kwOf(i) # {} THEN kws[CHOOSE k \in kwOf(i) : TRUE][2]
                    ELSE MP_OBJ_NULL
        found == {k \in DOMAIN kws : \E i \in n_pos + 1 .. n_allowed : k \in kwOf(i)}
        val(i) == IF given(i) = MP_OBJ_NULL THEN allowed[i].u_int ELSE mp_obj_get_int(given(i)).v
        bad == \/ n_pos > n_allowed
               \/ \E i \in 1 .. n_allowed : given(i) = MP_OBJ_NULL /\ allowed[i].required
               \/ \E i \in 1 .. n_allowed : given(i) # MP_OBJ_NULL /\ mp_obj_get_int(given(i)).err # NoErr
               \/ found # DOMAIN kws
    IN IF bad THEN [err |-> TypeError, vals |-> <<>>]
       ELSE [err |-> NoErr, vals |-> [i \in 1 .. n_allowed |-> val(i)]]

\* the ports of the pins
Ports == {"PORT_A", "PORT_B"}

\* self->port of a pin object
PinPort(self) == IF self.id % 2 = 1 THEN "PORT_A" ELSE "PORT_B"

\* the value of a mp_int_t read as a uint: itself when not negative; a negative
\* one becomes 2^32 + v, which is above every mode and pull and is held here
\* as the largest integer of the checker
AsUint(v) == IF v >= 0 THEN v ELSE 2147483647

\* HAL_GPIO_Init(GPIOx, &GPIO_InitStructure): every pin of the block that the
\* mask GPIO_InitStructure.Pin names is configured; pins is the set of these
\* pins, and each is recorded under its own id
HAL_GPIO_Init(hw, pins, GPIO_InitStructure) ==
    [hw EXCEPT !.init = [p \in PinIds |-> IF p \in pins THEN [GPIO_InitStructure EXCEPT !.Pin = p] ELSE @[p]]]

\* the HAL header pin.c is built with: the one of the STM32 (stmhal) defines
\* a clock enable __GPIOx_CLK_ENABLE for every port, teensy_hal.h defines none
Hals == {"stm32", "teensy"}

\* the ports x for which __GPIOx_CLK_ENABLE is defined
ClkEnableDefined(hal) == IF hal = "teensy" THEN {} ELSE Ports

\* the switch on self->port: a port has a case, which enables its clock, when
\* its macro is defined; without a case the switch does nothing
CLK_ENABLE(hw, port, hal) ==
    IF port \in ClkEnableDefined(hal) THEN [hw EXCEPT !.clk = @ \cup {port}] ELSE hw

\* pin_obj_init_helper that enables the port clock before it checks the values
pin_obj_init_helper_ClockFirst(self, n_args, args, kw_args, hw, hal) ==
    LET parsed == mp_arg_parse_all(n_args, args, kw_args, PIN_INIT_NUM_ARGS, pin_init_args)
        mode == AsUint(parsed.vals[1])
        pull == AsUint(parsed.vals[2])
        af == parsed.vals[3]
        raise(e, h) == {[err |-> e, ret |-> MP_OBJ_NULL, gpio |-> h]}
        clocked == CLK_ENABLE(hw, PinPort(self), hal)
        GPIO_InitStructure == [Pin |-> self.id, Mode |-> mode, Pull |-> pull, Speed |-> GPIO_SPEED_FAST, Alternate |-> af]
    IN IF parsed.err # NoErr THEN raise(parsed.err, hw)
       ELSE IF ~IS_GPIO_MODE(mode) THEN raise(ValueError, clocked)
       ELSE IF ~IS_GPIO_PULL(pull) THEN raise(ValueError, clocked)
       ELSE IF mode \in {GPIO_MODE_AF_PP, GPIO_MODE_AF_OD} /\ ~IS_GPIO_AF(af) THEN raise(ValueError, clocked)
       ELSE {[err |-> NoErr, ret |-> mp_const_none, gpio |-> HAL_GPIO_Init(clocked, {self.id}, GPIO_InitStructure)]}

\* pin_obj_init_helper: the set of its possible outcomes [err, ret, gpio].
\* With a self that is no pin object the reads of self->port, self->pin_mask
\* and self->gpio are undefined: the clock of any port that has a case may be
\* enabled or none, and the block and the mask given to HAL_GPIO_Init may
\* name any pins of the board or none of them.
pin_obj_init_helper(self, n_args, args, kw_args, hw, hal) ==
    LET parsed == mp_arg_parse_all(n_args, args, kw_args, PIN_INIT_NUM_ARGS, pin_init_args)
        mode == AsUint(parsed.vals[1])
        pull == AsUint(parsed.vals[2])
        af == parsed.vals[3]
        raise(e) == {[err |-> e, ret |-> MP_OBJ_NULL, gpio |-> hw]}
        configure(clocked, pins, mask) ==
            LET GPIO_InitStructure == [Pin |-> mask, Mode |-> mode, Pull |-> pull, Speed |-> GPIO_SPEED_FAST, Alternate |-> af]
            IN [err |-> NoErr, ret |-> mp_const_none, gpio |-> HAL_GPIO_Init(clocked, pins, GPIO_InitStructure)]
    IN IF parsed.err # NoErr THEN raise(parsed.err)
       ELSE IF ~IS_GPIO_MODE(mode) THEN raise(ValueError)
       ELSE IF ~IS_GPIO_PULL(pull) THEN raise(ValueError)
       ELSE IF mode \in {GPIO_MODE_AF_PP, GPIO_MODE_AF_OD} /\ ~IS_GPIO_AF(af) THEN raise(ValueError)
       ELSE IF IsPin(self) THEN {configure(CLK_ENABLE(hw, PinPort(self), hal), {self.id}, self.id)}
       ELSE {configure(clocked, pins, 0) : clocked \in {hw} \cup {CLK_ENABLE(hw, q, hal) : q \in Ports}, pins \in SUBSET PinIds}

\* pin_obj_init: pin.init(...), args[0] is the pin
pin_obj_init(n_args, args, kw_args, hw, hal) ==
    pin_obj_init_helper(args[1], n_args - 1, SubSeq(args, 2, n_args), kw_args, hw, hal)

\* ---------------------------------------------------------------------------
\* The Pin class: pin_find

\* a Python function of one argument that does nothing but return: it is
\* given by the table of what it returns, and returns None for every other
\* argument
PyFun1(id, table) == [t |-> "fun_py", id |-> id, items |-> <<>>, map |-> table]

\* a Python function of one argument whose body first does one thing and then
\* returns by its table. does is <<"Pin.dict", d>> (it calls Pin.dict(d)),
\* <<"Pin.mapper", f>> (it calls Pin.mapper(f)), <<"pin.init", p, mode>> (it
\* calls p.init(mode)) or <<"raise", exc>> (it raises exc and returns nothing)
PyFun1Does(id, table, does) == [t |-> "fun_py", id |-> id, items |-> does, map |-> table]

KeyError == [kind |-> "KeyError", a |-> 0, b |-> 0]

\* what the function returns for the argument when it returns
PyReturns(fun, arg) ==
    LET e == mp_map_lookup(fun, arg)
    IN IF e = 0 THEN mp_const_none ELSE fun.map[e][2]

\* mp_call_function_1: the Python function runs on the state of the Pin
\* class and on the hardware as they are at the call; the set of the possible
\* outcomes [err, ret, mapper, map_dict, gpio], which hold what the function
\* has left behind
mp_call_function_1(fun, arg, pin_class_mapper, pin_class_map_dict, hw, hal) ==
    LET does == fun.items
        done(m, d, h) == [err |-> NoErr, ret |-> PyReturns(fun, arg), mapper |-> m, map_dict |-> d, gpio |-> h]
        raised(e, h) == [err |-> e, ret |-> MP_OBJ_NULL, mapper |-> pin_class_mapper, map_dict |-> pin_class_map_dict, gpio |-> h]
    IN IF does = <<>> THEN {done(pin_class_mapper, pin_class_map_dict, hw)}
       ELSE IF does[1] = "Pin.dict"
       THEN {done(pin_class_mapper, pin_map_dict(2, <<PinClass, does[2]>>, pin_class_map_dict), hw)}
       ELSE IF does[1] = "Pin.mapper"
       THEN {done(pin_mapper(2, <<PinClass, does[2]>>, pin_class_mapper), pin_class_map_dict, hw)}
       ELSE IF does[1] = "pin.init"
       THEN {IF r.err # NoErr THEN raised(r.err, r.gpio) ELSE done(pin_class_mapper, pin_class_map_dict, r.gpio) :
                r \in pin_obj_init(2, <<does[2], MP_OBJ_NEW_SMALL_INT(does[3])>>, <<>>, hw, hal)}
       ELSE {raised(does[2], hw)}

\* pin_find: the set of its possible outcomes [err, pin_obj, consulted,
\* mapper, map_dict, gpio]. consulted lists, in the order of the code, the
\* sources that have been looked at: 1 the type test of the object, 2 the
\* call of the mapper, 3 the lookup in the mapping dict, 4 the board names,
\* 5 the CPU names. The mapper is the user's code: the class variables are
\* read again after it has run, and what it did to them and to the hardware
\* stays, whatever pin_find then returns or raises.
pin_find(user_obj, pin_class_mapper, pin_class_map_dict, hw, hal) ==
    LET out(e, obj, cons, m, d, h) ==
            [err |-> e, pin_obj |-> obj, consulted |-> cons, mapper |-> m, map_dict |-> d, gpio |-> h]
        FromDict(upto2, m, d, h) ==
            LET elem == IF d = mp_const_none THEN 0 ELSE mp_map_lookup(d, user_obj)
                board == pin_find_named_pin(pin_board_pins_locals_dict, user_obj)
                cpu == pin_find_named_pin(pin_cpu_pins_locals_dict, user_obj)
                upto3 == IF d = mp_const_none THEN upto2 ELSE Append(upto2, 3)
            IN IF elem # 0 /\ d.map[elem][2] # MP_OBJ_NULL
               THEN out(NoErr, d.map[elem][2], upto3, m, d, h)
               ELSE IF board # MP_OBJ_NULL
               THEN out(NoErr, board, Append(upto3, 4), m, d, h)
               ELSE IF cpu # MP_OBJ_NULL
               THEN out(NoErr, cpu, upto3 \o <<4, 5>>, m, d, h)
               ELSE out(ValueError, MP_OBJ_NULL, upto3 \o <<4, 5>>, m, d, h)
    IN IF IsPin(user_obj)
       THEN {out(NoErr, user_obj, <<1>>, pin_class_mapper, pin_class_map_dict, hw)}
       ELSE IF pin_class_mapper # mp_const_none
       THEN {IF c.err # NoErr
             THEN out(c.err, MP_OBJ_NULL, <<1, 2>>, c.mapper, c.map_dict, c.gpio)
             ELSE IF c.ret # mp_const_none
             THEN IF ~IsPin(c.ret)
                  THEN out(ValueError, MP_OBJ_NULL, <<1, 2>>, c.mapper, c.map_dict, c.gpio)
                  ELSE out(NoErr, c.ret, <<1, 2>>, c.mapper, c.map_dict, c.gpio)
             ELSE FromDict(<<1, 2>>, c.mapper, c.map_dict, c.gpio) :
                c \in mp_call_function_1(pin_class_mapper, user_obj, pin_class_mapper, pin_class_map_dict, hw, hal)}
       ELSE {FromDict(<<1>>, pin_class_mapper, pin_class_map_dict, hw)}

\* what a user's mapper or mapping dict gives for a name: nothing, a pin, or
\* an object that is no pin
MapEntries(name, pinv, other) == {<<>>, << <<name, pinv>> >>, << <<name, other>> >>}

\* what the bodies of the user's mappers do besides returning: they set the
\* mapping dict, take the mapper away, configure a pin, or raise
MapperDoes == {<<"Pin.dict", DictOf(<< <<StrObj(4), PinObj(6)>>, <<StrObj(1), PinObj(2)>> >>)>>, <<"Pin.mapper", mp_const_none>>, <<"pin.init", PinObj(2), GPIO_MODE_OUTPUT_PP>>, <<"raise", KeyError>>}

\* the user's mappers: None, functions of StrObj(3) and StrObj(4) that only
\* return, and functions that do one of MapperDoes before they return
Mappers ==
    {mp_const_none}
      \cup {PyFun1(61, a \o b) : a \in MapEntries(StrObj(3), PinObj(5), Obj(50)), b \in MapEntries(StrObj(4), PinObj(5), Obj(50))}
      \cup {PyFun1Does(62, a, does) : a \in {<<>>, << <<StrObj(3), PinObj(5)>> >>}, does \in MapperDoes}

\* the user's mapping dicts: None and dicts over StrObj(3) and StrObj(4)
MapDicts == {mp_const_none} \cup {DictOf(a \o b) : a \in MapEntries(StrObj(3), PinObj(6), Obj(51)), b \in MapEntries(StrObj(4), PinObj(6), Obj(51))}

\* what the user passes to pin_find: pins and names
UserObjs == {PinObj(1), PinObj(2)} \cup {StrObj(n) : n \in 1 .. 4}

PinInit0 ==
    /\ ~pin.find.done
    /\ pin' = pin_init0
    /\ UNCHANGED <<funs, mp_globals, bind, stack, heap, last, aborted, ncall, gpio, pcall, rng>>

PinMapper ==
    /\ ~pin.find.done
    /\ \E n_args \in 1 .. 2 : \E fun \in Mappers :
         pin' = [pin EXCEPT !.mapper = pin_mapper(n_args, SubSeq(<<PinClass, fun>>, 1, n_args), pin.mapper)]
    /\ UNCHANGED <<funs, mp_globals, bind, stack, heap, last, aborted, ncall, gpio, pcall, rng>>

PinMapDict ==
    /\ ~pin.find.done
    /\ \E n_args \in 1 .. 2 : \E dict \in MapDicts :
         pin' = [pin EXCEPT !.map_dict = pin_map_dict(n_args, SubSeq(<<PinClass, dict>>, 1, n_args), pin.map_dict)]
    /\ UNCHANGED <<funs, mp_globals, bind, stack, heap, last, aborted, ncall, gpio, pcall, rng>>

\* a call of pin_find; called is the mapper that was installed at the call
PinFind ==
    /\ ~pin.find.done
    /\ \E user_obj \in UserObjs, hal \in Hals :
         \E r \in pin_find(user_obj, pin.mapper, pin.map_dict, gpio, hal) :
           /\ pin' = [mapper |-> r.mapper, map_dict |-> r.map_dict,
                      find |-> [done |-> TRUE, user_obj |-> user_obj, called |-> pin.mapper,
                                res |-> [err |-> r.err, pin_obj |-> r.pin_obj, consulted |-> r.consulted]]]
           /\ gpio' = r.gpio
    /\ UNCHANGED <<funs, mp_globals, bind, stack, heap, last, aborted, ncall, pcall, rng>>

\* the caller has taken the result of pin_find
DropFind ==
    /\ pin.find.done
    /\ pin' = [pin EXCEPT !.find = NoFind]
    /\ UNCHANGED <<funs, mp_globals, bind, stack, heap, last, aborted, ncall, gpio, pcall, rng>>

NextPin == PinInit0 \/ PinMapper \/ PinMapDict \/ PinFind \/ DropFind

SpecPin == Init /\ [][NextPin]_vars

\* the mapper that the last pin_find called has raised
MapperRaised ==
    /\ ~IsPin(pin.find.user_obj)
    /\ pin.find.called # mp_const_none
    /\ pin.find.called.items # <<>>
    /\ pin.find.called.items[1] = "raise"

\* what source k gave for the object u in the last pin_find, MP_OBJ_NULL when
\* it gave nothing: the mapper is the one that was installed at the call, the
\* mapping dict the one that is installed once the mapper has run
SourceGives(k, u) ==
    CASE k = 1 -> IF IsPin(u) THEN u ELSE MP_OBJ_NULL
      [] k = 2 -> IF pin.find.called = mp_const_none \/ MapperRaised \/ PyReturns(pin.find.called, u) = mp_const_none
                  THEN MP_OBJ_NULL ELSE PyReturns(pin.find.called, u)
      [] k = 3 -> IF pin.map_dict = mp_const_none THEN MP_OBJ_NULL
                  ELSE pin_find_named_pin(pin.map_dict, u)
      [] k = 4 -> pin_find_named_pin(pin_board_pins_locals_dict, u)
      [] k = 5 -> pin_find_named_pin(pin_cpu_pins_locals_dict, u)

\* the result of the last pin_find follows the order 1..5 when "source k
\* yields" is read as Yields(k); an exception of the mapper ends the search
FirstYieldWins(Yields(_)) ==
    LET u == pin.find.user_obj
        r == pin.find.res
        first == CHOOSE k \in 1 .. 5 : Yields(k) /\ \A j \in 1 .. k - 1 : ~Yields(j)
        badMapper == /\ ~IsPin(u)
                     /\ SourceGives(2, u) # MP_OBJ_NULL
                     /\ ~IsPin(SourceGives(2, u))
    IN IF MapperRaised
       THEN r.err = pin.find.called.items[2] /\ \A i \in DOMAIN r.consulted : r.consulted[i] <= 2
       ELSE IF badMapper
       THEN r.err = ValueError /\ \A i \in DOMAIN r.consulted : r.consulted[i] <= 2
       ELSE IF \E k \in 1 .. 5 : Yields(k)
       THEN /\ r.err = NoErr
            /\ r.pin_obj = SourceGives(first, u)
            /\ \A i \in DOMAIN r.consulted : r.consulted[i] <= first
       ELSE r.err = ValueError

\* C20: pin_find returns the result of the first source, in the order Pin
\* object, mapper, mapping dict, board name, CPU name, that yields a pin, and
\* consults no later source; a mapper result that is neither None nor a Pin
\* raises ValueError; when no source yields a pin, ValueError is raised.
C20_AsStated ==
    pin.find.done =>
      FirstYieldWins(LAMBDA k : IsPin(SourceGives(k, pin.find.user_obj)))

\* the same order holds when the mapping dict is taken to yield whatever value
\* it holds for the object, a pin or not
C20_DictYieldsAnyValue ==
    pin.find.done =>
      FirstYieldWins(LAMBDA k : IF k = 3 THEN SourceGives(3, pin.find.user_obj) # MP_OBJ_NULL
                                ELSE IsPin(SourceGives(k, pin.find.user_obj)))

\* the mapper has set the mapping dict while pin_find was waiting for it and
\* has returned None: the pin comes from the dict the mapper has left
DictSetByMapperIsRead ==
    /\ pin.find.done
    /\ pin.find.user_obj = StrObj(4)
    /\ pin.find.called # mp_const_none
    /\ pin.find.called.items # <<>>
    /\ pin.find.called.items[1] = "Pin.dict"
    /\ pin.find.res = [err |-> NoErr, pin_obj |-> PinObj(6), consulted |-> <<1, 2, 3>>]

\* ---------------------------------------------------------------------------
\* The Pin class: the constructor

\* pin_make_new: the set of its possible outcomes [err, ret, mapper,
\* map_dict, gpio]; pin_find may run the user's mapper, and the pin is
\* initialised on the hardware as the mapper has left it
pin_make_new(self_in, n_args, n_kw, args, pin_class_mapper, pin_class_map_dict, hw, hal) ==
    LET err == mp_arg_check_num(n_args, n_kw, 1, MP_OBJ_FUN_ARGS_MAX, TRUE)
        kw_args == mp_map_init_fixed_table(n_kw, ArgsPtr(n_args))
        out(e, ret, f, h) == [err |-> e, ret |-> ret, mapper |-> f.mapper, map_dict |-> f.map_dict, gpio |-> h]
    IN IF err # NoErr
       THEN {[err |-> err, ret |-> MP_OBJ_NULL, mapper |-> pin_class_mapper, map_dict |-> pin_class_map_dict, gpio |-> hw]}
       ELSE UNION {IF f.err # NoErr THEN {out(f.err, MP_OBJ_NULL, f, f.gpio)}
                   ELSE IF n_args > 1 \/ n_kw > 0
                   THEN {out(r.err, IF r.err # NoErr THEN MP_OBJ_NULL ELSE f.pin_obj, f, r.gpio) :
                            r \in pin_obj_init_helper(f.pin_obj, n_args - 1, SubSeq(args, 2, n_args), MapPairs(kw_args, args), f.gpio, hal)}
                   ELSE {out(NoErr, f.pin_obj, f, f.gpio)} :
                      f \in pin_find(args[1], pin_class_mapper, pin_class_map_dict, hw, hal)}

\* the values given for mode, pull and af: the modes of the HAL and one that
\* is none of them, a pull of the HAL and one that is none, an alternate
\* function inside and one outside 0..7; a pull or an af that is not given
\* takes the default of pin_init_args (GPIO_NOPULL, -1)
ModeVals == {GPIO_MODE_INPUT, GPIO_MODE_OUTPUT_PP, GPIO_MODE_OUTPUT_OD, GPIO_MODE_AF_PP, GPIO_MODE_AF_OD, GPIO_MODE_ANALOG, 4}
PullVals == {GPIO_PULLDOWN, 3}
AfVals == {7, 8}

\* the ids given to the constructor: a pin object, its board name, no pin name
PinUsers == {PinObj(1), StrObj(1), StrObj(4)}

\* the arguments after the id: the first n_pos of the values by position and
\* the parameters of by_kw by keyword
InitArgs(n_pos, by_kw, vals) ==
    LET kw(i) == IF i \in by_kw THEN <<MP_OBJ_NEW_QSTR(pin_init_args[i].qst), MP_OBJ_NEW_SMALL_INT(vals[i])>> ELSE <<>>
    IN [i \in 1 .. n_pos |-> MP_OBJ_NEW_SMALL_INT(vals[i])] \o kw(1) \o kw(2) \o kw(3)

PinMakeNew ==
    /\ pcall.op = "none"
    /\ \E user_obj \in PinUsers : \E n_pos \in 0 .. PIN_INIT_NUM_ARGS : \E by_kw \in SUBSET (1 .. PIN_INIT_NUM_ARGS) :
       \E mode \in ModeVals : \E pull \in PullVals : \E af \in AfVals : \E hal \in Hals :
         LET args == <<user_obj>> \o InitArgs(n_pos, by_kw, <<mode, pull, af>>)
             n_args == 1 + n_pos
             n_kw == Cardinality(by_kw)
         IN \E r \in pin_make_new(PinClass, n_args, n_kw, args, pin.mapper, pin.map_dict, gpio, hal) :
              /\ gpio' = r.gpio
              /\ pin' = [pin EXCEPT !.mapper = r.mapper, !.map_dict = r.map_dict]
              /\ pcall' = [op |-> "make_new", n_args |-> n_args, n_kw |-> n_kw, args |-> args,
                           res |-> [err |-> r.err, ret |-> r.ret]]
    /\ UNCHANGED <<funs, mp_globals, bind, stack, heap, last, aborted, ncall, rng>>

PinObjInit ==
    /\ pcall.op = "none"
    /\ \E n_pos \in 0 .. PIN_INIT_NUM_ARGS : \E by_kw \in SUBSET (1 .. PIN_INIT_NUM_ARGS) :
       \E mode \in ModeVals : \E pull \in PullVals : \E af \in AfVals : \E hal \in Hals :
         LET args == <<PinObj(1)>> \o InitArgs(n_pos, by_kw, <<mode, pull, af>>)
             n_args == 1 + n_pos
             n_kw == Cardinality(by_kw)
             kw_args == MapPairs(mp_map_init_fixed_table(n_kw, ArgsPtr(n_args)), args)
         IN \E r \in pin_obj_init(n_args, args, kw_args, gpio, hal) :
              /\ gpio' = r.gpio
              /\ pcall' = [op |-> "init", n_args |-> n_args, n_kw |-> n_kw, args |-> args,
                           res |-> [err |-> r.err, ret |-> r.ret]]
    /\ UNCHANGED <<funs, mp_globals, bind, stack, heap, last, aborted, ncall, pin, rng>>

\* the caller has taken the result
DropPinCall ==
    /\ pcall.op # "none"
    /\ pcall' = NoPinCall
    /\ UNCHANGED <<funs, mp_globals, bind, stack, heap, last, aborted, ncall, pin, gpio, rng>>

NextPinInit == PinMakeNew \/ PinObjInit \/ DropPinCall

SpecPinInit == Init /\ [][NextPinInit]_vars

\* a step that is a call of the constructor or of pin.init
PinCallStep == pcall.op = "none" /\ pcall'.op # "none"

\* mode, pull and af as that call gives them, <<>> when they cannot be read
\* from the arguments
GivenInit ==
    LET c == pcall'
        kws == MapPairs(mp_map_init_fixed_table(c.n_kw, ArgsPtr(c.n_args)), c.args)
    IN mp_arg_parse_all(c.n_args - 1, SubSeq(c.args, 2, c.n_args), kws, PIN_INIT_NUM_ARGS, pin_init_args).vals

\* the claim's three reasons to reject
InvalidInit(v) ==
    \/ v[1] \notin {GPIO_MODE_INPUT, GPIO_MODE_OUTPUT_PP, GPIO_MODE_OUTPUT_OD, GPIO_MODE_AF_PP, GPIO_MODE_AF_OD, GPIO_MODE_ANALOG}
    \/ v[2] \notin {GPIO_NOPULL, GPIO_PULLUP, GPIO_PULLDOWN}
    \/ v[1] \in {GPIO_MODE_AF_PP, GPIO_MODE_AF_OD} /\ v[3] \notin 0 .. 7

\* C21: a Pin constructed from its id alone leaves the hardware as it is; with
\* further arguments the pin is initialised with the given mode, pull and af,
\* unless the mode or the pull is invalid or the mode is AF_PP / AF_OD and af
\* is outside 0..7: then ValueError is raised; every call that raises leaves
\* the clocks and the pin configuration unchanged; af is not checked for the
\* other modes. An accepted init enables the clock of the pin's port where the
\* HAL has a clock enable for that port, and no other clock.
C21_InitValidatedFirst ==
    [][PinCallStep =>
         LET c == pcall'
             given == GivenInit
             onlyId == c.op = "make_new" /\ c.n_args = 1 /\ c.n_kw = 0
             resolved == c.args[1] \in {PinObj(1), StrObj(1)}
         IN /\ onlyId => gpio' = gpio
            /\ c.res.err # NoErr => gpio' = gpio
            /\ (~onlyId /\ resolved /\ given # <<>>) =>
                 IF InvalidInit(given)
                 THEN c.res.err = ValueError
                 ELSE /\ c.res.err = NoErr
                      /\ gpio'.clk \in {gpio.clk \cup (ClkEnableDefined(hal) \cap {"PORT_A"}) : hal \in Hals}
                      /\ gpio'.init[1] = [Pin |-> 1, Mode |-> given[1], Pull |-> given[2], Speed |-> GPIO_SPEED_FAST, Alternate |-> given[3]]
                      /\ \A p \in PinIds \ {1} : gpio'.init[p] = gpio.init[p]]_vars

\* the pin is an output with af = 8 from an earlier init under a HAL with port
\* clocks, its clock is on, and Pin("X1", AF_OD, af = 8) has just been rejected
C21_Witness ==
    /\ pcall.op = "make_new"
    /\ pcall.args = <<StrObj(1), MP_OBJ_NEW_SMALL_INT(GPIO_MODE_AF_OD), MP_OBJ_NEW_QSTR(MP_QSTR_af), MP_OBJ_NEW_SMALL_INT(8)>>
    /\ pcall.res.err = ValueError
    /\ gpio.clk = {"PORT_A"}
    /\ gpio.init[1] = [Pin |-> 1, Mode |-> GPIO_MODE_OUTPUT_PP, Pull |-> GPIO_PULLDOWN, Speed |-> GPIO_SPEED_FAST, Alternate |-> 8]

\* ------------------------------------------------------------------------
\* range and its iterator (py/objrange.c).  An addition of mp_int_t beyond
\* the word wraps in two's complement.
\* mp_int_t a + b
AddW(a, b) ==
    IF b > 0 /\ a > IntMax - b THEN (a - IntMax - 1) + (b - IntMax - 1)
    ELSE IF b < 0 /\ a < IntMin - b THEN (a + IntMax + 1) + (b + IntMax + 1)
    ELSE a + b

\* mp_int_t a - b
SubW(a, b) == IF b = IntMin THEN AddW(AddW(a, IntMax), 1) ELSE AddW(a, -b)

\* mp_int_t a / b of C, which truncates toward zero; b # 0 and b # IntMin
CDiv(a, b) ==
    LET q == a \div b
        exact == a % (IF b < 0 THEN -b ELSE b) = 0
    IN IF exact \/ q >= 0 THEN q ELSE q + 1

\* a range object and a range iterator
RangeObj(start, stop, step) == [start |-> start, stop |-> stop, step |-> step]
RangeIt(cur, stop, step) == [cur |-> cur, stop |-> stop, step |-> step]

\* what a range operation gives its caller: a small int, a bool, a range, a
\* range iterator, MP_OBJ_NULL (the operation is not supported),
\* MP_OBJ_STOP_ITERATION, or an exception.  IntRes(v) is
\* MP_OBJ_NEW_SMALL_INT(v): v is kept inside the small ints only
NoRangeObj == RangeObj(0, 0, 0)
NoRangeIt == RangeIt(0, 0, 0)
RangeRes(kind, v, r) == [kind |-> kind, v |-> v, r |-> r]
IntRes(v) == RangeRes("int", MP_OBJ_SMALL_INT_VALUE(MP_OBJ_NEW_SMALL_INT(v)), NoRangeObj)
BoolRes(b) == RangeRes("bool", IF b THEN 1 ELSE 0, NoRangeObj)
NullRes == RangeRes("null", 0, NoRangeObj)
StopIteration == RangeRes("stop", 0, NoRangeObj)
IndexError == RangeRes("IndexError", 0, NoRangeObj)
RangeTypeError == RangeRes("TypeError", 0, NoRangeObj)
NoRangeRes == RangeRes("none", 0, NoRangeObj)

\* lines 48-57: [out, o]: what the call returns and the iterator after it
range_it_iternext(o) ==
    IF (o.step > 0 /\ o.cur < o.stop) \/ (o.step < 0 /\ o.cur > o.stop)
    THEN [out |-> IntRes(o.cur), o |-> [o EXCEPT !.cur = AddW(o.cur, o.step)]]
    ELSE [out |-> StopIteration, o |-> o]

\* lines 66-73
mp_obj_new_range_iterator(cur, stop, step) == RangeIt(cur, stop, step)

\* lines 96-116, for int arguments: args are the values of mp_obj_get_int;
\* [err, o]: the exception of the argument count check, or the range made
range_make_new(n_args, n_kw, args) ==
    LET err == mp_arg_check_num(n_args, n_kw, 1, 3, FALSE)
    IN IF err # NoErr THEN [err |-> err, o |-> NoRangeObj]
       ELSE IF n_args = 1 THEN [err |-> NoErr, o |-> RangeObj(0, args[1], 1)]
       ELSE IF n_args = 3 THEN [err |-> NoErr, o |-> RangeObj(args[1], args[2], args[3])]
       ELSE [err |-> NoErr, o |-> RangeObj(args[1], args[2], 1)]

\* lines 118-131
range_len(self) ==
    LET len0 == AddW(SubW(self.stop, self.start), self.step)
        len1 == IF self.step > 0 THEN SubW(len0, 1) ELSE AddW(len0, 1)
        len2 == CDiv(len1, self.step)
    IN IF len2 < 0 THEN 0 ELSE len2

MP_UNARY_OP_BOOL == 0
MP_UNARY_OP_LEN == 1
MP_UNARY_OP_POSITIVE == 2

\* lines 133-141
range_unary_op(op, self) ==
    LET len == range_len(self)
    IN IF op = MP_UNARY_OP_BOOL THEN BoolRes(len > 0)
       ELSE IF op = MP_UNARY_OP_LEN THEN IntRes(len)
       ELSE NullRes

\* an index object: an int, or a slice [a:b] of two ints
IntIndex(i) == [slice |-> FALSE, a |-> i, b |-> 0]
SliceIndex(a, b) == [slice |-> TRUE, a |-> a, b |-> b]

\* mp_seq_get_fast_slice_indexes for a slice of two ints without step: the
\* bounds taken from the end when negative, clamped to 0 .. len, an empty
\* slice when they cross; the step is 1
mp_seq_get_fast_slice_indexes(len, index) ==
    LET start == IF index.a < 0
                 THEN (IF len + index.a < 0 THEN 0 ELSE len + index.a)
                 ELSE IF index.a > len THEN len ELSE index.a
        stop0 == IF index.b < 0 THEN len + index.b
                 ELSE IF index.b > len THEN len ELSE index.b
    IN [start |-> start, stop |-> IF start > stop0 THEN start ELSE stop0, step |-> 1]

\* mp_get_index for an int index, not a slice bound: counted from the end
\* when negative, IndexError outside 0 .. len-1; -1 stands for the raise
mp_get_index(len, i) ==
    LET j == IF i < 0 THEN i + len ELSE i
    IN IF j < 0 \/ j >= len THEN -1 ELSE j

\* lines 143-165 with MICROPY_PY_BUILTINS_SLICE; load is value == MP_OBJ_SENTINEL.
\* For an index below len the product and the sum stay inside the word.
range_subscr(self, index, load) ==
    IF load
    THEN LET len == range_len(self)
         IN IF index.slice
            THEN LET slice == mp_seq_get_fast_slice_indexes(len, index)
                 IN RangeRes("range", 0, RangeObj(slice.start, slice.stop, slice.step))
            ELSE LET index_val == mp_get_index(len, index.a)
                 IN IF index_val < 0 THEN IndexError
                    ELSE IntRes(self.start + index_val * self.step)
    ELSE NullRes

\* lines 167-170
range_getiter(o) == mp_obj_new_range_iterator(o.start, o.stop, o.step)

\* Inputs: the bounds and the steps of the ranges made, the ends of the
\* small ints among them; step 0 is left out (range_len divides by it)
MaxYield == 3      \* values an iterator is followed for
MaxIndex == 3      \* largest index and slice bound asked for
RangeBounds == {SmallMin, -3, 0, 1, 4, SmallMax}
RangeSteps == {SmallMin, -2, -1, 1, 2, 3, SmallMax}

\* range(...) is called with no to four ints, or with a keyword as well; a
\* call that the argument count check rejects makes no range and leaves its
\* TypeError for the caller
RangeMakeNew ==
    /\ ~rng.made /\ rng.q = NoRangeRes
    /\ \E n_args \in 0 .. 4, n_kw \in 0 .. 1 :
         \E start \in RangeBounds, stop \in RangeBounds, step \in RangeSteps :
            /\ n_args # 3 => step = 1
            /\ n_args < 2 => start = 0
            /\ n_args = 0 => stop = 0
            /\ LET made == range_make_new(n_args, n_kw,
                                SubSeq(IF n_args = 1 THEN <<stop>> ELSE <<start, stop, step, 0>>, 1, n_args)
                                  \o SubSeq(<<MP_OBJ_NEW_QSTR(1), 0>>, 1, 2 * n_kw))
               IN rng' = IF made.err # NoErr THEN [NoRange EXCEPT !.q = RangeTypeError]
                         ELSE [NoRange EXCEPT !.made = TRUE, !.r = made.o]
    /\ UNCHANGED <<funs, mp_globals, bind, stack, heap, last, aborted, ncall, pin, gpio, pcall>>

\* bool(r), len(r) or another unary operation on the range
RangeUnaryOp ==
    /\ rng.made /\ rng.q = NoRangeRes /\ ~rng.sliced /\ ~rng.iter
    /\ \E op \in {MP_UNARY_OP_BOOL, MP_UNARY_OP_LEN, MP_UNARY_OP_POSITIVE} :
         rng' = [rng EXCEPT !.q = range_unary_op(op, rng.r)]
    /\ UNCHANGED <<funs, mp_globals, bind, stack, heap, last, aborted, ncall, pin, gpio, pcall>>

\* r[i], or r[i] = v which a range does not support
RangeSubscr ==
    /\ rng.made /\ rng.q = NoRangeRes /\ ~rng.sliced /\ ~rng.iter
    /\ \E i \in -1 .. MaxIndex, load \in BOOLEAN :
         rng' = [rng EXCEPT !.q = range_subscr(rng.r, IntIndex(i), load)]
    /\ UNCHANGED <<funs, mp_globals, bind, stack, heap, last, aborted, ncall, pin, gpio, pcall>>

\* the caller has taken the result of the operation
DropRangeRes ==
    /\ rng.q # NoRangeRes
    /\ rng' = [rng EXCEPT !.q = NoRangeRes]
    /\ UNCHANGED <<funs, mp_globals, bind, stack, heap, last, aborted, ncall, pin, gpio, pcall>>

\* r[a:b]
RangeSlice ==
    /\ rng.made /\ rng.q = NoRangeRes /\ ~rng.sliced /\ ~rng.iter
    /\ \E a \in 0 .. MaxIndex, b \in 0 .. MaxIndex + 1 :
         /\ rng' = [rng EXCEPT !.sliced = TRUE, !.a = a, !.b = b,
                      !.sl = range_subscr(rng.r, SliceIndex(a, b), TRUE).r]
    /\ UNCHANGED <<funs, mp_globals, bind, stack, heap, last, aborted, ncall, pin, gpio, pcall>>

\* iter(r), or iter of the slice when one has been taken
RangeGetIter ==
    /\ rng.made /\ rng.q = NoRangeRes /\ ~rng.iter
    /\ rng' = [rng EXCEPT !.iter = TRUE,
                 !.it = range_getiter(IF rng.sliced THEN rng.sl ELSE rng.r)]
    /\ UNCHANGED <<funs, mp_globals, bind, stack, heap, last, aborted, ncall, pin, gpio, pcall>>

\* next(it)
RangeIterNext ==
    /\ rng.iter /\ ~rng.stopped /\ Len(rng.yielded) < MaxYield
    /\ LET n == range_it_iternext(rng.it)
       IN rng' = [rng EXCEPT !.it = n.o,
                    !.stopped = (n.out = StopIteration),
                    !.yielded = IF n.out = StopIteration THEN @ ELSE Append(@, n.out.v)]
    /\ UNCHANGED <<funs, mp_globals, bind, stack, heap, last, aborted, ncall, pin, gpio, pcall>>

\* the range and its iterator are dropped
DropRange ==
    /\ rng.made /\ rng.q = NoRangeRes
    /\ rng' = NoRange
    /\ UNCHANGED <<funs, mp_globals, bind, stack, heap, last, aborted, ncall, pin, gpio, pcall>>

NextRange ==
    \/ RangeMakeNew \/ RangeUnaryOp \/ RangeSubscr \/ DropRangeRes
    \/ RangeSlice \/ RangeGetIter \/ RangeIterNext \/ DropRange

SpecRange == Init /\ [][NextRange]_vars

\* the iterator made from the range itself, not from a slice of it
IteratingRange == rng.iter /\ ~rng.sliced

\* the first addition of range_len, stop - start + step, leaves the word
LenOverflows(r) ==
    LET d == r.stop - r.start
    IN IF r.step > 0 THEN d > IntMax - r.step ELSE d < IntMin - r.step

\* the small int object whose value is v
SmallIntOf(v) == RangeRes("int", v, NoRangeObj)

\* what the iterator has yielded so far agrees with range_len, len(r),
\* bool(r) and r[i]
AgreesWithLen(r, yielded, stopped) ==
    LET len == range_len(r)
        n == Len(yielded)
    IN /\ n <= len
       /\ stopped => n = len
       /\ range_unary_op(MP_UNARY_OP_LEN, r) = SmallIntOf(len)
       /\ (stopped \/ n > 0) => range_unary_op(MP_UNARY_OP_BOOL, r) = BoolRes(n > 0)
       /\ \A i \in 0 .. n - 1 :
            /\ yielded[i + 1] = r.start + i * r.step
            /\ range_subscr(r, IntIndex(i), TRUE) = SmallIntOf(yielded[i + 1])

\* C29: for every range(start, stop, step) with step # 0 the length computed
\* by range_len is the number of values the iterator yields before it reports
\* stop-iteration, bool(range) is true exactly when that number is positive,
\* and for 0 <= i < len the i-th value yielded is start + i*step, which is
\* also range[i].
C29_AsStated ==
    (IteratingRange /\ rng.r.step # 0) => AgreesWithLen(rng.r, rng.yielded, rng.stopped)

\* the same for the ranges whose length is computed inside the machine word
\* and is itself a small int
C29_AgreesInsideWord ==
    (IteratingRange /\ rng.r.step # 0 /\ ~LenOverflows(rng.r) /\ range_len(rng.r) <= SmallMax) =>
        AgreesWithLen(rng.r, rng.yielded, rng.stopped)

\* the iterator made from the slice r[a:b], 0 <= a <= b <= len(r)
IteratingSlice ==
    /\ rng.iter /\ rng.sliced
    /\ 0 <= rng.a /\ rng.a <= rng.b /\ rng.b <= range_len(rng.r)

\* what the slice's iterator has yielded so far is r[a], r[a+1], ...
YieldsElementsOf(r, a, b, yielded, stopped) ==
    LET n == Len(yielded)
    IN /\ n <= b - a
       /\ stopped => n = b - a
       /\ \A k \in 0 .. n - 1 : range_subscr(r, IntIndex(a + k), TRUE) = SmallIntOf(yielded[k + 1])

\* C30: slicing a range r with [a:b], 0 <= a <= b <= len(r), gives a range
\* whose iterated elements are exactly r[a], r[a+1], ..., r[b-1], for every
\* start and step of r.
C30_AsStated ==
    IteratingSlice => YieldsElementsOf(rng.r, rng.a, rng.b, rng.yielded, rng.stopped)

\* the same for the ranges that start at 0 with step 1
C30_HoldsFromZeroByOne ==
    (IteratingSlice /\ rng.r.start = 0 /\ rng.r.step = 1) =>
        YieldsElementsOf(rng.r, rng.a, rng.b, rng.yielded, rng.stopped)

====
